---- MODULE Spec2Model ----
(***************************************************************************)
(* Trace-to-training-example conversion (convert-traces/route.ts) and the  *)
(* save/split ingest path (save-training-data/route.ts).                   *)
(*                                                                         *)
(* JavaScript values are tagged pairs <<tag, payload>>; a text is a        *)
(* sequence of one-character strings, so that JSON.parse, JSON.stringify,  *)
(* trim, split and the brace-matching scan work on characters as the code  *)
(* does.                                                                   *)
(***************************************************************************)
EXTENDS Integers, Sequences, FiniteSets, TLC

\* F of a value computed once (a local constant of the code).
With(x, F(_)) == F(x)

\* ------------------------------------------------------------------------
\* Characters
\* ------------------------------------------------------------------------
QUOTE == "\""
BSLASH == "\\"
NL == "\n"
TAB == "<TAB>"
CR == "<CR>"
SP == " "

\* The white space String.prototype.trim and JSON.parse skip.
WhiteSpace == {SP, NL, TAB, CR}

Digits == {"0", "1", "2", "3", "4", "5", "6", "7", "8", "9"}

\* ------------------------------------------------------------------------
\* JavaScript values
\* ------------------------------------------------------------------------
Undefined == <<"undefined", <<>> >>
Null == <<"null", <<>> >>
True == <<"bool", <<"true">> >>
False == <<"bool", <<"false">> >>
Str(chars) == <<"str", chars>>
\* A number is held as the characters of its canonical decimal form.
Num(chars) == <<"num", chars>>
Arr(elems) == <<"arr", elems>>
\* An object is the ordered list of its <<key, value>> pairs.
Obj(pairs) == <<"obj", pairs>>

Tag(v) == v[1]
Payload(v) == v[2]

IsString(v) == Tag(v) = "str"
IsArray(v) == Tag(v) = "arr"
\* typeof v === 'object' (true of null, arrays and plain objects)
TypeofObject(v) == Tag(v) \in {"obj", "arr", "null"}
IsNullish(v) == Tag(v) \in {"undefined", "null"}

\* ToBoolean: what `if (v)` and `!v` test.
Truthy(v) ==
  CASE Tag(v) \in {"undefined", "null"} -> FALSE
    [] Tag(v) = "bool" -> v = True
    [] Tag(v) = "num" -> Payload(v) # <<"0">>
    [] Tag(v) = "str" -> Payload(v) # <<>>
    [] OTHER -> TRUE

RECURSIVE FindKey(_, _, _)
\* Position of key k in the pair list, searching from position i; 0 when absent.
FindKey(pairs, k, i) ==
  IF i > Len(pairs) THEN 0
  ELSE IF pairs[i][1] = k THEN i
  ELSE FindKey(pairs, k, i + 1)

\* `k in v` for a plain object.
HasKey(v, k) == Tag(v) = "obj" /\ FindKey(Payload(v), k, 1) # 0

\* v.k: the property read; undefined on arrays, strings and absent keys.
Get(v, k) ==
  IF HasKey(v, k) THEN Payload(v)[FindKey(Payload(v), k, 1)][2] ELSE Undefined

\* obj[k] = val as JSON.parse builds objects: a repeated key keeps its first
\* position and takes the last value.
SetKey(pairs, k, val) ==
  LET p == FindKey(pairs, k, 1)
  IN IF p = 0 THEN Append(pairs, <<k, val>>)
     ELSE [pairs EXCEPT ![p] = <<k, val>>]

\* ------------------------------------------------------------------------
\* Text helpers (String.prototype)
\* ------------------------------------------------------------------------
RECURSIVE Concat(_)
\* The texts of a list, concatenated.
Concat(ts) == IF ts = <<>> THEN <<>> ELSE Head(ts) \o Concat(Tail(ts))

RECURSIVE Join(_, _)
\* Array.prototype.join(sep)
Join(ts, sep) ==
  IF ts = <<>> THEN <<>>
  ELSE IF Len(ts) = 1 THEN ts[1]
  ELSE ts[1] \o sep \o Join(Tail(ts), sep)

\* text.startsWith(p, at i)
StartsWithAt(t, p, i) ==
  /\ i + Len(p) - 1 <= Len(t)
  /\ \A k \in 1..Len(p) : t[i + k - 1] = p[k]

StartsWith(t, p) == StartsWithAt(t, p, 1)

\* text.includes(p)
Includes(t, p) == \E i \in 1..(Len(t) + 1) : StartsWithAt(t, p, i)

RECURSIVE TrimStart(_)
TrimStart(t) ==
  IF t # <<>> /\ Head(t) \in WhiteSpace THEN TrimStart(Tail(t)) ELSE t

RECURSIVE TrimEnd(_)
TrimEnd(t) ==
  IF t # <<>> /\ t[Len(t)] \in WhiteSpace
  THEN TrimEnd(SubSeq(t, 1, Len(t) - 1)) ELSE t

\* String.prototype.trim
Trim(t) == TrimEnd(TrimStart(t))

\* The positions from i on at which sep stands in t.
SeparatorsFrom(t, sep, i) == {p \in i..Len(t) : StartsWithAt(t, sep, p)}

\* The least number of a non-empty set of numbers.
Least(S) == CHOOSE p \in S : \A q \in S : p <= q

RECURSIVE SplitFrom(_, _, _, _)
\* The pieces of t from position i on, the current piece having begun at
\* `from`; sep is not empty.
SplitFrom(t, sep, from, i) ==
  IF SeparatorsFrom(t, sep, i) = {} THEN << SubSeq(t, from, Len(t)) >>
  ELSE With(Least(SeparatorsFrom(t, sep, i)),
            LAMBDA p : << SubSeq(t, from, p - 1) >>
                         \o SplitFrom(t, sep, p + Len(sep), p + Len(sep)))

\* String.prototype.split(sep): always at least one piece.
Split(t, sep) == SplitFrom(t, sep, 1, 1)

RECURSIVE MapTrim(_)
\* .map((line) => line.trim())
MapTrim(ts) ==
  IF ts = <<>> THEN <<>> ELSE << Trim(Head(ts)) >> \o MapTrim(Tail(ts))

\* ------------------------------------------------------------------------
\* JSON.parse and JSON.stringify
\* The texts of the model hold no \u escapes and no fraction or exponent
\* parts; the sign of zero is not kept.
\* ------------------------------------------------------------------------
BSP == "<BS>"
FF == "<FF>"

\* The character a backslash escape stands for.
EscapeDecode ==
  (QUOTE :> QUOTE) @@ (BSLASH :> BSLASH) @@ ("/" :> "/") @@ ("n" :> NL)
    @@ ("t" :> TAB) @@ ("r" :> CR) @@ ("b" :> BSP) @@ ("f" :> FF)

\* The escape JSON.stringify writes for a character of a string.
EscapeEncode ==
  (QUOTE :> <<BSLASH, QUOTE>>) @@ (BSLASH :> <<BSLASH, BSLASH>>)
    @@ (NL :> <<BSLASH, "n">>) @@ (TAB :> <<BSLASH, "t">>)
    @@ (CR :> <<BSLASH, "r">>) @@ (BSP :> <<BSLASH, "b">>)
    @@ (FF :> <<BSLASH, "f">>)

ControlChars == {NL, TAB, CR, BSP, FF}

ParseFail == [ok |-> FALSE, v |-> Undefined, next |-> 0]
ParseOk(val, n) == [ok |-> TRUE, v |-> val, next |-> n]

RECURSIVE SkipWs(_, _)
\* The first position from i on that holds no JSON white space.
SkipWs(t, i) ==
  IF i <= Len(t) /\ t[i] \in WhiteSpace THEN SkipWs(t, i + 1) ELSE i

RECURSIVE ParseChars(_, _, _)
\* The characters of a string literal from position j on, up to its
\* closing quote.
ParseChars(t, j, acc) ==
  IF j > Len(t) THEN ParseFail
  ELSE IF t[j] = QUOTE THEN ParseOk(Str(acc), j + 1)
  ELSE IF t[j] = BSLASH
  THEN IF j + 1 <= Len(t) /\ t[j + 1] \in DOMAIN EscapeDecode
       THEN ParseChars(t, j + 2, Append(acc, EscapeDecode[t[j + 1]]))
       ELSE ParseFail
  ELSE IF t[j] \in ControlChars THEN ParseFail
  ELSE ParseChars(t, j + 1, Append(acc, t[j]))

\* A string literal whose opening quote is at position i.
ParseString(t, i) == ParseChars(t, i + 1, <<>>)

RECURSIVE DigitsEnd(_, _)
\* The position after the run of digits that starts at i.
DigitsEnd(t, i) ==
  IF i <= Len(t) /\ t[i] \in Digits THEN DigitsEnd(t, i + 1) ELSE i

\* -? ( 0 | [1-9][0-9]* )
ParseNumber(t, i) ==
  LET neg == t[i] = "-"
      d == IF neg THEN i + 1 ELSE i
  IN IF d > Len(t) \/ t[d] \notin Digits THEN ParseFail
     ELSE LET e == IF t[d] = "0" THEN d + 1 ELSE DigitsEnd(t, d)
              digits == SubSeq(t, d, e - 1)
          IN ParseOk(Num(IF neg /\ digits # <<"0">>
                         THEN <<"-">> \o digits ELSE digits), e)

LitNull == <<"n", "u", "l", "l">>
LitTrue == <<"t", "r", "u", "e">>
LitFalse == <<"f", "a", "l", "s", "e">>

RECURSIVE ParseValue(_, _)
RECURSIVE ParseElements(_, _, _)
RECURSIVE ParseMembers(_, _, _)
RECURSIVE ParseMemberValue(_, _, _)
RECURSIVE ParseValueAt(_, _)

\* The elements of an array, the next one starting at or after j.
ParseElements(t, j, acc) ==
  With(ParseValue(t, j), LAMBDA e :
    IF ~e.ok THEN ParseFail
    ELSE With(SkipWs(t, e.next), LAMBDA m :
      IF m > Len(t) THEN ParseFail
      ELSE IF t[m] = "," THEN ParseElements(t, m + 1, Append(acc, e.v))
      ELSE IF t[m] = "]" THEN ParseOk(Arr(Append(acc, e.v)), m + 1)
      ELSE ParseFail))

\* The member of an object whose key has been read, and the members after
\* it.
ParseMemberValue(t, acc, key) ==
  IF ~key.ok THEN ParseFail
  ELSE With(SkipWs(t, key.next), LAMBDA c :
    IF c > Len(t) \/ t[c] # ":" THEN ParseFail
    ELSE With(ParseValue(t, c + 1), LAMBDA e :
      IF ~e.ok THEN ParseFail
      ELSE With(SkipWs(t, e.next), LAMBDA m :
        IF m > Len(t) THEN ParseFail
        ELSE IF t[m] = ","
        THEN ParseMembers(t, m + 1, SetKey(acc, Payload(key.v), e.v))
        ELSE IF t[m] = "}"
        THEN ParseOk(Obj(SetKey(acc, Payload(key.v), e.v)), m + 1)
        ELSE ParseFail)))

\* The members of an object, the next key starting at or after j.
ParseMembers(t, j, acc) ==
  With(SkipWs(t, j), LAMBDA q :
    IF q > Len(t) \/ t[q] # QUOTE THEN ParseFail
    ELSE ParseMemberValue(t, acc, ParseString(t, q)))

\* One JSON value starting at position i, which holds no white space.
ParseValueAt(t, i) ==
  IF i > Len(t) THEN ParseFail
  ELSE IF t[i] = "{"
  THEN With(SkipWs(t, i + 1), LAMBDA j :
         IF j <= Len(t) /\ t[j] = "}" THEN ParseOk(Obj(<<>>), j + 1)
         ELSE ParseMembers(t, j, <<>>))
  ELSE IF t[i] = "["
  THEN With(SkipWs(t, i + 1), LAMBDA j :
         IF j <= Len(t) /\ t[j] = "]" THEN ParseOk(Arr(<<>>), j + 1)
         ELSE ParseElements(t, j, <<>>))
  ELSE IF t[i] = QUOTE THEN ParseString(t, i)
  ELSE IF t[i] = "-" \/ t[i] \in Digits THEN ParseNumber(t, i)
  ELSE IF StartsWithAt(t, LitNull, i) THEN ParseOk(Null, i + 4)
  ELSE IF StartsWithAt(t, LitTrue, i) THEN ParseOk(True, i + 4)
  ELSE IF StartsWithAt(t, LitFalse, i) THEN ParseOk(False, i + 5)
  ELSE ParseFail

\* One JSON value starting at or after position i0.
ParseValue(t, i0) == ParseValueAt(t, SkipWs(t, i0))

\* A whole text is one value and white space around it.
WholeText(t, r) ==
  IF r.ok /\ SkipWs(t, r.next) > Len(t) THEN r ELSE ParseFail

\* JSON.parse(t): ok is FALSE where JSON.parse throws a SyntaxError.
JSONParse(t) == WholeText(t, ParseValue(t, 1))

RECURSIVE EscapeChars(_)
EscapeChars(chars) ==
  IF chars = <<>> THEN <<>>
  ELSE (IF Head(chars) \in DOMAIN EscapeEncode
        THEN EscapeEncode[Head(chars)] ELSE << Head(chars) >>)
         \o EscapeChars(Tail(chars))

QuoteString(chars) == <<QUOTE>> \o EscapeChars(chars) \o <<QUOTE>>

RECURSIVE JSONStringify(_)
RECURSIVE StringifyElems(_)
RECURSIVE StringifyPairs(_)

\* The serialized elements of an array; undefined is written null.
StringifyElems(elems) ==
  IF elems = <<>> THEN <<>>
  ELSE << IF Head(elems) = Undefined THEN LitNull
          ELSE JSONStringify(Head(elems)) >>
         \o StringifyElems(Tail(elems))

\* The serialized members of an object; a member whose value is undefined
\* is left out.
StringifyPairs(pairs) ==
  IF pairs = <<>> THEN <<>>
  ELSE (IF Head(pairs)[2] = Undefined THEN <<>>
        ELSE << QuoteString(Head(pairs)[1]) \o <<":">>
                  \o JSONStringify(Head(pairs)[2]) >>)
         \o StringifyPairs(Tail(pairs))

\* JSON.stringify(v), the compact form (v is not undefined).
JSONStringify(v) ==
  CASE Tag(v) = "str" -> QuoteString(Payload(v))
    [] Tag(v) = "num" -> Payload(v)
    [] Tag(v) = "bool" -> IF v = True THEN LitTrue ELSE LitFalse
    [] Tag(v) = "arr" ->
         <<"[">> \o Join(StringifyElems(Payload(v)), <<",">>) \o <<"]">>
    [] Tag(v) = "obj" ->
         <<"{">> \o Join(StringifyPairs(Payload(v)), <<",">>) \o <<"}">>
    [] OTHER -> LitNull

\* ------------------------------------------------------------------------
\* JSONBlockRepairer: save-training-data/route.ts, lines 40-172
\* ------------------------------------------------------------------------
\* '\n\n---\n\n'
SEPARATOR == <<NL, NL, "-", "-", "-", NL, NL>>
\* '---'
DASHES == <<"-", "-", "-">>

\* A filter that keeps the empty lines.
KeepBlock_KeepsEmpty(line) == ~StartsWith(line, DASHES)

\* .filter((line) => line && !line.startsWith('---'))
KeepBlock(line) == line # <<>> /\ ~StartsWith(line, DASHES)

RECURSIVE FilterBlocks(_)
FilterBlocks(ts) ==
  IF ts = <<>> THEN <<>>
  ELSE (IF KeepBlock(Head(ts)) THEN << Head(ts) >> ELSE <<>>)
         \o FilterBlocks(Tail(ts))

\* The candidate blocks of the ingest text: split on single newlines when
\* the text holds no separator, on the separator otherwise.
SplitBlocks(data) ==
  IF ~Includes(data, SEPARATOR)
  THEN FilterBlocks(MapTrim(Split(Trim(data), <<NL>>)))
  ELSE FilterBlocks(MapTrim(Split(Trim(data), SEPARATOR)))

\* parsed = JSON.parse(jsonStr); break -- or the SyntaxError it throws.
ScanRegion(r) ==
  IF r.ok THEN [kind |-> "parsed", v |-> r.v]
  ELSE [kind |-> "throw", v |-> Undefined]

\* A scan that does not follow string literals.
NextInString_NoStrings(char, inString) == FALSE

\* if (char === '"' && !escapeNext) { inString = !inString }
NextInString(char, inString) == IF char = QUOTE THEN ~inString ELSE inString

RECURSIVE BraceScan(_, _, _, _, _, _)
\* The loop over the characters of a block, at 1-based position j. The
\* result is "parsed" with the value of the first balanced region, "throw"
\* when JSON.parse of that region throws (the exception leaves the loop),
\* and "none" when the loop ends without a balanced region.
BraceScan(block, j, jsonStart, braceCount, inString, escapeNext) ==
  IF j > Len(block) THEN [kind |-> "none", v |-> Undefined]
  ELSE IF escapeNext
  THEN BraceScan(block, j + 1, jsonStart, braceCount, inString, FALSE)
  ELSE IF block[j] = BSLASH
  THEN BraceScan(block, j + 1, jsonStart, braceCount, inString, TRUE)
  ELSE IF block[j] = QUOTE
  THEN BraceScan(block, j + 1, jsonStart, braceCount,
                 NextInString(block[j], inString), FALSE)
  ELSE IF inString
  THEN BraceScan(block, j + 1, jsonStart, braceCount, inString, FALSE)
  ELSE IF block[j] \in {"{", "["}
  THEN BraceScan(block, j + 1, IF jsonStart = -1 THEN j ELSE jsonStart,
                 braceCount + 1, inString, FALSE)
  ELSE IF block[j] \in {"}", "]"}
  THEN IF braceCount - 1 = 0 /\ jsonStart # -1
       THEN ScanRegion(JSONParse(SubSeq(block, jsonStart, j)))
       ELSE BraceScan(block, j + 1, jsonStart, braceCount - 1, inString,
                      FALSE)
  ELSE BraceScan(block, j + 1, jsonStart, braceCount, inString, FALSE)

\* block.split('\n').map(trim).filter(nonempty).join(' ')
Compacted(block) ==
  LET lines == MapTrim(Split(block, <<NL>>))
  IN Join(SelectSeq(lines, LAMBDA l : l # <<>>), <<SP>>)

RepairOk(val) == [ok |-> TRUE, v |-> val, cause |-> ""]
RepairError(why) == [ok |-> FALSE, v |-> Undefined, cause |-> why]

\* The line-join fallback: the compacted block parsed, or the Error thrown.
LineJoin(c) ==
  IF c.ok THEN RepairOk(c.v)
  ELSE RepairError("Failed to parse JSON block after all attempts")

\* What the scan, and the fallback after a scan that found no balanced
\* region, make of a block.
AfterScan(block, scan) ==
  IF scan.kind = "throw" THEN RepairError("SyntaxError")
  ELSE IF scan.kind = "parsed" THEN RepairOk(scan.v)
  ELSE LineJoin(JSONParse(Compacted(block)))

\* What the scan and the line-join fallback make of a block that
\* JSON.parse rejected.
RepairAfterDirectFailure(block) ==
  AfterScan(block, BraceScan(block, 1, -1, 0, FALSE, FALSE))

\* `if (!parsed) throw ...` on the value a strategy produced.
RejectFalsy(r) ==
  IF r.ok /\ ~Truthy(r.v)
  THEN RepairError("Could not extract valid JSON from block")
  ELSE r

\* The three strategies in the order of the code: direct parse, then the
\* scan, then the line-join fallback.
RecoverValue(block) ==
  With(JSONParse(block), LAMBDA direct :
    IF direct.ok THEN RepairOk(direct.v)
    ELSE RepairAfterDirectFailure(block))

\* The body of the loop for one block: the strategies, then the test of
\* the parsed value.
RepairBlock(block) == RejectFalsy(RecoverValue(block))

\* The block kept as it came, not re-serialized.
CompactLine_RawBlock(block, parsed) == block

\* compactLines.push(JSON.stringify(parsed))
CompactLine(block, parsed) == JSONStringify(parsed)

RECURSIVE RepairLoop(_, _, _)
\* The loop over the blocks from block i on: the compact lines of all the
\* blocks, or the first block that fails.
RepairLoop(bs, i, lines) ==
  IF i > Len(bs)
  THEN [ok |-> TRUE, lines |-> lines, index |-> 0, cause |-> ""]
  ELSE With(RepairBlock(bs[i]), LAMBDA r :
    IF r.ok
    THEN RepairLoop(bs, i + 1, Append(lines, CompactLine(bs[i], r.v)))
    ELSE [ok |-> FALSE, lines |-> <<>>, index |-> i, cause |-> r.cause])

\* ------------------------------------------------------------------------
\* DatasetSplitter: save-training-data/route.ts, lines 177-183
\* ------------------------------------------------------------------------
\* A ratio is the fraction <<num, den>>, den > 0.
\* trainSplitRatio = 0.8 when the body omits the field.
DefaultTrainSplitRatio == <<4, 5>>

\* Math.floor in the place of Math.round.
MathRound_Floor(n, r) == (n * r[1]) \div r[2]

\* Math.round(n * r): the nearest integer, a half rounded towards
\* +infinity.
MathRound(n, r) == (2 * n * r[1] + r[2]) \div (2 * r[2])

Min(a, b) == IF a < b THEN a ELSE b
Max(a, b) == IF a > b THEN a ELSE b

\* The 0-based index Array.prototype.slice makes of an argument: a
\* negative one counts from the end, and the result is clamped to 0..len.
SliceIndex(len, k) == IF k < 0 THEN Max(len + k, 0) ELSE Min(k, len)

\* arr.slice(start, end)
Slice(arr, start, end) ==
  LET from == SliceIndex(Len(arr), start)
      to == SliceIndex(Len(arr), end)
  IN SubSeq(arr, from + 1, to)

\* arr.slice(start)
SliceFrom(arr, start) == Slice(arr, start, Len(arr))

Range(f) == {f[i] : i \in DOMAIN f}
Count(f, x) == Cardinality({i \in DOMAIN f : f[i] = x})

\* f and g hold the same elements the same number of times.
IsPermutation(f, g) ==
  /\ Len(f) = Len(g)
  /\ \A x \in Range(f) \cup Range(g) : Count(f, x) = Count(g, x)

\* [...lines].sort(() => Math.random() - 0.5): the comparator is random,
\* so the copy may come out in any order.
Shuffles(lines) ==
  {s \in [1..Len(lines) -> Range(lines)] : IsPermutation(s, lines)}

SplitIndex(lines, ratio) == MathRound(Len(lines), ratio)
TrainingLines(shuffledLines, splitIndex) ==
  Slice(shuffledLines, 0, splitIndex)
\* The validation slice begun one line late.
ValidationLines_OffByOne(shuffledLines, splitIndex) ==
  SliceFrom(shuffledLines, splitIndex + 1)

ValidationLines(shuffledLines, splitIndex) ==
  SliceFrom(shuffledLines, splitIndex)

\* The shuffle made in place, on compactLines itself.
CombinedLines_Shuffled(lines, shuffled) == shuffled

\* The lines of the combined file: compactLines itself, which the shuffle,
\* made on a copy, left alone.
CombinedLines(lines, shuffled) == lines

\* ------------------------------------------------------------------------
\* State
\* ------------------------------------------------------------------------
VARIABLES
  savePc,           \* where the save/split handler stands
  saveBody,         \* the parsed request body of the save/split call
  blocks,           \* the candidate blocks of body.data
  compactLines,     \* the compact line of every repaired block, in order
  shuffledLines,    \* the shuffled copy
  trainingLines,
  validationLines,
  blobPuts,         \* the puts the store accepted, in order
  saveResponse,     \* the response of the save/split call
  timestamp,        \* the timestamp prefix the save/split call computed
  convPc,           \* where the conversion handler stands
  convBody,         \* the request body of the conversion call
  fetchRequest,     \* the query of the observations request
  observations,     \* the batch the fetch returned
  trainingExamples, \* the accepted examples, in order
  invalidTraces,    \* the rejected traces, in order
  acceptedFrom,     \* the batch position each accepted example came from
  jsonl,            \* the pretty form of the accepted examples
  compactJsonl,     \* their compact form
  convPuts,         \* the puts of the conversion call the store accepted
  convResponse,     \* the response of the conversion call
  callPc,           \* which function was called outside a request
  callTrace,        \* the trace convertTraceToTrainingExample was given
  callMethod,       \* and the method
  callResult,       \* what it returned
  extractOutput,    \* the output extractOutputContent was given
  extractResult,    \* what it returned
  clock,            \* the clock concurrent save/split calls read
  reqPc,            \* where each concurrent save/split call stands
  reqBody,          \* its request body
  reqStamp,         \* the timestamp prefix it computed
  reqLines,         \* its compact, shuffled, training and validation lines
  reqResponse,      \* its response
  gateway,          \* every put handed to the store, in order
  pagePc,           \* where handleFetchTraces of the finetune page stands
  traceLimit,       \* the number of traces the page was asked to fetch
  batchIndex,       \* the loop index i of handleFetchTraces
  batchBodies,      \* the bodies it posted to the conversion call, in order
  upstreamQueries,  \* the query the conversion call built for each body
  traceFetchError   \* the error the page shows

saveVars == <<savePc, saveBody, blocks, compactLines, shuffledLines,
              trainingLines, validationLines, blobPuts, saveResponse,
              timestamp>>

convVars == <<convPc, convBody, fetchRequest, observations, trainingExamples,
              invalidTraces, acceptedFrom, jsonl, compactJsonl, convPuts,
              convResponse>>

callVars == <<callPc, callTrace, callMethod, callResult, extractOutput,
              extractResult>>

reqVars == <<clock, reqPc, reqBody, reqStamp, reqLines, reqResponse, gateway>>

pageVars == <<pagePc, traceLimit, batchIndex, batchBodies, upstreamQueries,
              traceFetchError>>

vars == <<saveVars, convVars, callVars, reqVars, pageVars>>

\* ------------------------------------------------------------------------
\* Inputs of the save/split call
\* A run of letters that no operation looks inside is one element of a
\* text.
\* ------------------------------------------------------------------------
\* The longest list of blocks an ingest text is made of.
MaxBlocks == 2

\* {"a":1}
ExA == <<"{", QUOTE, "a", QUOTE, ":", "1", "}">>
\* {"b":2}
ExB == <<"{", QUOTE, "b", QUOTE, ":", "2", "}">>
\* {"a":1} {"b":2}
TwoValues == ExA \o <<SP>> \o ExB
\* {"a":1} trailing junk
TrailingJunk == ExA \o <<SP, "trailing", SP, "junk">>
\* {"a":"}"} junk
StringBrace ==
  <<"{", QUOTE, "a", QUOTE, ":", QUOTE, "}", QUOTE, "}", SP, "junk">>
\* {"a":"\"]"} junk
EscapedQuote ==
  <<"{", QUOTE, "a", QUOTE, ":", QUOTE, BSLASH, QUOTE, "]", QUOTE, "}", SP,
    "junk">>
\* ---{"a":1}
DashLine == DASHES \o ExA
\* 0
Zero == <<"0">>
\* {"a":
Broken == <<"{", QUOTE, "a", QUOTE, ":">>
\* a blank line
Blank == <<SP>>

\* The indented form of {"a":1}, on three lines.
PrettyA ==
  <<"{", NL, SP, SP, QUOTE, "a", QUOTE, ":", SP, "1", NL, "}">>
\* {"a":1} and {"b":2} on two lines
TwoLines == ExA \o <<NL>> \o ExB
\* {"a":"x<newline>y"}: a raw line break inside a string
RawBreakObject ==
  <<"{", QUOTE, "a", QUOTE, ":", QUOTE, "x", NL, "y", QUOTE, "}">>
\* "x<newline>y"
RawBreakString == <<QUOTE, "x", NL, "y", QUOTE>>

\* } {"a":1}: a stray closing brace before the value
StrayClose == <<"}", SP>> \o ExA
\* ] [{"a":1}] junk
StrayBracket == <<"]", SP, "[">> \o ExA \o <<"]", SP, "junk">>

CompactBlocks ==
  {ExA, ExB, TwoValues, TrailingJunk, StringBrace, EscapedQuote, DashLine,
   Zero, Broken, Blank}

PrettyBlocks == {PrettyA, ExB, TwoLines, RawBreakObject, RawBreakString, Broken}

\* The lists of 1..MaxBlocks elements of S.
ListsOf(S) == UNION {[1..n -> S] : n \in 1..MaxBlocks}

\* Ten copies of {"a":1}, one per line.
TenLines == Join([i \in 1..10 |-> ExA], <<NL>>)

IngestTexts ==
  {Join(l, <<NL>>) : l \in ListsOf(CompactBlocks)}
    \cup {Join(l, SEPARATOR) : l \in ListsOf(PrettyBlocks)}
    \cup {TenLines, <<>>, StrayClose, StrayBracket,
          Join(<<ExB, StrayClose>>, <<NL>>)}

\* 0.8 when omitted (<<>>), else the caller's number; it is not clamped.
Ratios == {<<>>, << <<0, 1>> >>, << <<1, 2>> >>, << <<4, 5>> >>, << <<1, 1>> >>,
           << <<-1, 2>> >>, << <<3, 2>> >>}

supervised == Str(<<"supervised">>)
preference == Str(<<"preference">>)
reinforcement == Str(<<"reinforcement">>)

\* The methods a request may name, and values that are none of them.
SaveMethods ==
  {supervised, preference, reinforcement, Undefined, Str(<<>>),
   Str(<<"other">>)}

\* The request bodies: every ingest text with every ratio under method
\* supervised, and a few texts and non-texts under every method value.
SaveBodies ==
  [data : {Str(t) : t \in IngestTexts} \cup {Undefined},
   method : {supervised},
   trainSplitRatio : Ratios]
    \cup [data : {Str(ExA), Str(TwoLines), Str(Broken), Str(<<>>), Undefined,
                  Null, Num(<<"5">>), Arr(<<>>)},
          method : SaveMethods,
          trainSplitRatio : {<<>>}]

\* ------------------------------------------------------------------------
\* The save/split handler: save-training-data/route.ts, POST
\* ------------------------------------------------------------------------
NoUrl == <<>>
\* The url the store gives the blob put under a file name.
UrlOf(filename) == <<"url", filename>>

\* `${v}`: the text a template literal makes of a value.
TemplateText(v) ==
  CASE Tag(v) \in {"str", "num"} -> Payload(v)
    [] Tag(v) = "bool" -> Payload(v)
    [] Tag(v) = "null" -> <<"null">>
    [] OTHER -> <<"undefined">>

\* The clock: milliseconds since midnight of the day the calls are made on.
\* The first reading is two milliseconds before a minute ends, so that the
\* readings differ in their millisecond, second and minute fields.
ClockStart == 59998
\* How many milliseconds the clock advances.
MaxTicks == 3
ClockReadings == ClockStart..(ClockStart + MaxTicks)

DigitText == <<"0", "1", "2", "3", "4", "5", "6", "7", "8", "9">>
Pad2(n) == <<DigitText[(n \div 10) + 1], DigitText[(n % 10) + 1]>>
Pad3(n) == <<DigitText[(n \div 100) + 1]>> \o Pad2(n % 100)

\* Date.prototype.toISOString: YYYY-MM-DDTHH:mm:ss.sssZ
ToISOString(ms) ==
  <<"2026", "-", "11", "-", "03", "T">>
    \o Pad2(ms \div 3600000) \o <<":">>
    \o Pad2((ms \div 60000) % 60) \o <<":">>
    \o Pad2((ms \div 1000) % 60) \o <<".">>
    \o Pad3(ms % 1000) \o <<"Z">>

\* .replace(/[:.]/g, '-')
ReplaceColonsAndDots(t) ==
  [i \in 1..Len(t) |-> IF t[i] \in {":", "."} THEN "-" ELSE t[i]]

\* generateTimestampPrefix (blob-storage.ts) for the clock reading `ms`.
generateTimestampPrefix(ms) ==
  Split(Join(Split(ReplaceColonsAndDots(ToISOString(ms)), <<"T">>), <<"-">>),
        <<"Z">>)[1]

\* `finetune-<kind>-${method}-${timestamp}.jsonl`
Filename(kind, method, stamp) ==
  <<"finetune-", kind, "-">> \o TemplateText(method) \o <<"-">>
    \o stamp \o <<".jsonl">>

SaveError(status, error, index, cause) ==
  [status |-> status, success |-> FALSE, error |-> error, index |-> index,
   cause |-> cause, blobUrl |-> NoUrl, trainingBlobUrl |-> NoUrl,
   validationBlobUrl |-> NoUrl, trainingCount |-> 0, validationCount |-> 0,
   trainSplitRatio |-> <<>>]

NoResponse == SaveError(0, "", 0, "")

\* const { data, method, exampleCount, trainSplitRatio = 0.8 } = body
RatioOf(body) ==
  IF body.trainSplitRatio = <<>> THEN DefaultTrainSplitRatio
  ELSE body.trainSplitRatio[1]

\* !data || typeof data !== 'string'
DataMissing(body) == ~Truthy(body.data) \/ ~IsString(body.data)

\* POST up to its first await of put: the request is validated, the text
\* split, every block repaired, the lines shuffled and split.
SavePOST ==
  /\ savePc = "idle"
  /\ \E body \in SaveBodies :
       /\ saveBody' = body
       /\ IF DataMissing(body)
          THEN /\ saveResponse' =
                    SaveError(400, "Training data is required", 0, "")
               /\ savePc' = "done"
               /\ UNCHANGED <<blocks, compactLines, shuffledLines,
                              trainingLines, validationLines, timestamp>>
          ELSE \E bs \in {SplitBlocks(Payload(body.data))} :
               \E rep \in {RepairLoop(bs, 1, <<>>)} :
                  /\ blocks' = bs
                  /\ IF bs = <<>>
                     THEN /\ saveResponse' =
                               SaveError(400, "No training examples found",
                                         0, "")
                          /\ savePc' = "done"
                          /\ UNCHANGED <<compactLines, shuffledLines,
                                         trainingLines, validationLines,
                                         timestamp>>
                     ELSE IF ~rep.ok
                     THEN /\ saveResponse' =
                               SaveError(400, "Invalid JSON on example",
                                         rep.index, rep.cause)
                          /\ savePc' = "done"
                          /\ UNCHANGED <<compactLines, shuffledLines,
                                         trainingLines, validationLines,
                                         timestamp>>
                     ELSE /\ compactLines' = rep.lines
                          /\ \E now \in ClockReadings :
                               timestamp' = generateTimestampPrefix(now)
                          /\ \E sh \in Shuffles(rep.lines) :
                               \E splitIndex \in
                                     {SplitIndex(sh, RatioOf(body))} :
                                  /\ shuffledLines' = sh
                                  /\ trainingLines' =
                                       TrainingLines(sh, splitIndex)
                                  /\ validationLines' =
                                       ValidationLines(sh, splitIndex)
                          /\ saveResponse' = NoResponse
                          /\ savePc' = "putTraining"
  /\ UNCHANGED blobPuts
  /\ UNCHANGED <<convVars, callVars, reqVars, pageVars>>

\* A rejected put of the training artifact that is swallowed: the handler
\* goes on to the next put.
PutRejects_Swallowed ==
  /\ savePc = "putTraining"
  /\ savePc' = "putValidation"
  /\ UNCHANGED <<saveBody, blocks, compactLines, shuffledLines,
                 trainingLines, validationLines, blobPuts, saveResponse,
                 timestamp>>
  /\ UNCHANGED <<convVars, callVars, reqVars, pageVars>>

\* An awaited put that rejects: the exception reaches the handler's outer
\* catch, which answers 500.
PutRejects ==
  /\ savePc \in {"putTraining", "putValidation", "putCombined"}
  /\ saveResponse' = SaveError(500, "put failed", 0, "")
  /\ savePc' = "done"
  /\ UNCHANGED <<saveBody, blocks, compactLines, shuffledLines,
                 trainingLines, validationLines, blobPuts, timestamp>>
  /\ UNCHANGED <<convVars, callVars, reqVars, pageVars>>

PutRecord(kind, method, stamp, lines) ==
  [filename |-> Filename(kind, method, stamp),
   content |-> Join(lines, <<NL>>)]

\* await put(trainingFilename, trainingLines.join('\n'), ...)
PutTraining ==
  /\ savePc = "putTraining"
  /\ blobPuts' =
       Append(blobPuts, PutRecord("training", saveBody.method, timestamp,
                           trainingLines))
  /\ savePc' = "putValidation"
  /\ UNCHANGED <<saveBody, blocks, compactLines, shuffledLines,
                 trainingLines, validationLines, saveResponse, timestamp>>
  /\ UNCHANGED <<convVars, callVars, reqVars, pageVars>>

\* await put(validationFilename, validationLines.join('\n'), ...)
PutValidation ==
  /\ savePc = "putValidation"
  /\ blobPuts' =
       Append(blobPuts,
              PutRecord("validation", saveBody.method, timestamp,
                        validationLines))
  /\ savePc' = "putCombined"
  /\ UNCHANGED <<saveBody, blocks, compactLines, shuffledLines,
                 trainingLines, validationLines, saveResponse, timestamp>>
  /\ UNCHANGED <<convVars, callVars, reqVars, pageVars>>

\* await put(combinedFilename, compactLines.join('\n'), ...) and the
\* success response.
PutCombined ==
  /\ savePc = "putCombined"
  /\ blobPuts' =
       Append(blobPuts,
              PutRecord("combined", saveBody.method, timestamp,
                        CombinedLines(compactLines, shuffledLines)))
  /\ saveResponse' =
       [status |-> 200, success |-> TRUE, error |-> "", index |-> 0,
        cause |-> "",
        blobUrl |-> UrlOf(Filename("combined", saveBody.method, timestamp)),
        trainingBlobUrl |->
          UrlOf(Filename("training", saveBody.method, timestamp)),
        validationBlobUrl |->
          UrlOf(Filename("validation", saveBody.method, timestamp)),
        trainingCount |-> Len(trainingLines),
        validationCount |-> Len(validationLines),
        trainSplitRatio |-> RatioOf(saveBody)]
  /\ savePc' = "done"
  /\ UNCHANGED <<saveBody, blocks, compactLines, shuffledLines,
                 trainingLines, validationLines, timestamp>>
  /\ UNCHANGED <<convVars, callVars, reqVars, pageVars>>

SaveInit ==
  /\ savePc = "idle"
  /\ saveBody = [data |-> Undefined, method |-> Undefined,
                 trainSplitRatio |-> <<>>]
  /\ blocks = <<>>
  /\ compactLines = <<>>
  /\ shuffledLines = <<>>
  /\ trainingLines = <<>>
  /\ validationLines = <<>>
  /\ blobPuts = <<>>
  /\ saveResponse = NoResponse
  /\ timestamp = <<>>

SaveNext ==
  \/ SavePOST
  \/ PutTraining
  \/ PutValidation
  \/ PutCombined
  \/ PutRejects

\* ------------------------------------------------------------------------
\* ContentExtractor and TraceNormalizer: convert-traces/route.ts, lines 9-231
\* ------------------------------------------------------------------------
ROLE == <<"role">>
CONTENT == <<"content">>
MESSAGES == <<"messages">>
TOOLS == <<"tools">>
PARALLEL_TOOL_CALLS == <<"parallel_tool_calls">>
REFERENCE_ANSWER == <<"reference_answer">>
GENERATION == Str(<<"GENERATION">>)

\* { role: 'user', content: text }
UserMessage(text) == Obj(<< <<ROLE, Str(<<"user">>)>>, <<CONTENT, text>> >>)
\* { role: 'assistant', content: text }
AssistantMessage(text) ==
  Obj(<< <<ROLE, Str(<<"assistant">>)>>, <<CONTENT, text>> >>)

\* What a step leaves: the value it produced, or the exception it threw.
Returned(val) == [threw |-> FALSE, v |-> val]
Thrown == [threw |-> TRUE, v |-> Undefined]

\* The one-character strings a string iterates over.
Chars(chars) == [i \in 1..Len(chars) |-> Str(<< chars[i] >>)]

\* push(...v): the elements of an array, the characters of a string, and a
\* TypeError for a value that is not iterable.
Spread(v) ==
  CASE Tag(v) = "arr" -> Returned(Payload(v))
    [] Tag(v) = "str" -> Returned(Chars(Payload(v)))
    [] OTHER -> Thrown

\* A classification without the string case.
InputMessages_NoStringCase(input) ==
  IF IsArray(input) THEN Spread(input)
  ELSE IF TypeofObject(input) /\ Truthy(Get(input, MESSAGES))
  THEN Spread(Get(input, MESSAGES))
  ELSE Returned(<<>>)

\* The messages of a truthy input: an array as it is, the messages field of
\* an object, a string as one user message, nothing otherwise.
InputMessages(input) ==
  IF IsArray(input) THEN Spread(input)
  ELSE IF TypeofObject(input) /\ Truthy(Get(input, MESSAGES))
  THEN Spread(Get(input, MESSAGES))
  ELSE IF IsString(input) THEN Returned(<< UserMessage(input) >>)
  ELSE Returned(<<>>)

\* The filter of the input messages: an object whose content is neither
\* null nor undefined.
HasContent(msg) ==
  /\ Truthy(msg)
  /\ TypeofObject(msg)
  /\ ~IsNullish(Get(msg, CONTENT))

Filtered(r) == IF r.threw THEN r ELSE Returned(SelectSeq(r.v, HasContent))

\* An extraction that applies the no-role rule before the content rule.
ObjectContent_RoleRuleFirst(output) ==
  IF ~HasKey(output, ROLE) THEN Str(JSONStringify(output))
  ELSE IF HasKey(output, CONTENT) /\ Get(output, CONTENT) # Null
  THEN IF IsString(Get(output, CONTENT)) THEN Get(output, CONTENT)
       ELSE Str(JSONStringify(Get(output, CONTENT)))
  ELSE Str(JSONStringify(output))

\* The content of an object output: its content field when present and not
\* null, else the serialized object.
ObjectContent(output) ==
  IF HasKey(output, CONTENT) /\ Get(output, CONTENT) # Null
  THEN IF IsString(Get(output, CONTENT)) THEN Get(output, CONTENT)
       ELSE Str(JSONStringify(Get(output, CONTENT)))
  ELSE Str(JSONStringify(output))

extractOutputContent(output) ==
  IF ~Truthy(output) THEN Null
  ELSE IF IsString(output) THEN output
  ELSE IF TypeofObject(output) THEN ObjectContent(output)
  ELSE Str(JSONStringify(output))

\* if (outputContent) messages.push({ role: 'assistant', ... })
PushAssistant(messages, outputContent) ==
  IF Truthy(outputContent)
  THEN Append(messages, AssistantMessage(outputContent))
  ELSE messages

\* if (output) { ... extractOutputContent(output) ... }
WithAssistant(messages, output) ==
  IF Truthy(output)
  THEN PushAssistant(messages, extractOutputContent(output))
  ELSE messages

\* if (trace.input) { ... } of the supervised branch
TraceInputMessages(trace) ==
  IF Truthy(trace.input) THEN Filtered(InputMessages(trace.input))
  ELSE Returned(<<>>)

\* The rest of the body of the observation loop, given the messages after
\* `if (obs.input)`.
ObservationOutput(obs, r) ==
  IF r.threw THEN r ELSE Returned(WithAssistant(r.v, obs.output))

\* The body of the observation loop for a matching observation: its input
\* replaces the messages, its output is appended.
ObservationMessages(obs, messages) ==
  ObservationOutput(obs,
    IF Truthy(obs.input) THEN Filtered(InputMessages(obs.input))
    ELSE Returned(messages))

RECURSIVE FromObservations_NoBreak(_, _, _)
\* An observation loop without the break: every matching observation is
\* used in turn.
FromObservations_NoBreak(list, k, messages) ==
  IF k > Len(list) THEN Returned(messages)
  ELSE IF list[k].type = GENERATION \/ ~Truthy(list[k].type)
  THEN With(ObservationMessages(list[k], messages),
            LAMBDA r : IF r.threw THEN r
                       ELSE FromObservations_NoBreak(list, k + 1, r.v))
  ELSE FromObservations_NoBreak(list, k + 1, messages)

RECURSIVE FromObservations(_, _, _)
\* The observation loop: the first observation of type GENERATION or of no
\* type is used, and the loop breaks.
FromObservations(list, k, messages) ==
  IF k > Len(list) THEN Returned(messages)
  ELSE IF list[k].type = GENERATION \/ ~Truthy(list[k].type)
  THEN ObservationMessages(list[k], messages)
  ELSE FromObservations(list, k + 1, messages)

\* A filter that leaves the role of a message unchecked.
ValidMessage_NoRoleCheck(msg) ==
  /\ Truthy(msg)
  /\ TypeofObject(msg)
  /\ ~IsNullish(Get(msg, CONTENT))

\* The filter of validMessages.
ValidMessage(msg) ==
  /\ Truthy(msg)
  /\ TypeofObject(msg)
  /\ Truthy(Get(msg, ROLE))
  /\ IsString(Get(msg, ROLE))
  /\ ~IsNullish(Get(msg, CONTENT))

\* trace.observations?.[0]?.metadata?.tools
ObservationTools(trace) ==
  IF Len(trace.observations) = 0 THEN Undefined
  ELSE IF IsNullish(trace.observations[1].metadata) THEN Undefined
  ELSE Get(trace.observations[1].metadata, TOOLS)

\* trace.metadata?.tools || trace.observations?.[0]?.metadata?.tools
SupervisedTools(trace) ==
  IF Truthy(Get(trace.metadata, TOOLS)) THEN Get(trace.metadata, TOOLS)
  ELSE ObservationTools(trace)

\* example.tools = tools, for a non-empty array
AttachTools(example, tools) ==
  IF IsArray(tools) /\ Len(Payload(tools)) > 0
  THEN SetKey(example, TOOLS, tools)
  ELSE example

\* example.parallel_tool_calls, when the metadata defines it
AttachParallelToolCalls(example, metadata) ==
  IF Get(metadata, PARALLEL_TOOL_CALLS) # Undefined
  THEN SetKey(example, PARALLEL_TOOL_CALLS,
              Get(metadata, PARALLEL_TOOL_CALLS))
  ELSE example

\* { messages: validMessages } with tools and parallel_tool_calls
SupervisedAssembled(trace, validMessages) ==
  IF Len(validMessages) = 0 THEN Null
  ELSE Obj(AttachParallelToolCalls(
             AttachTools(<< <<MESSAGES, Arr(validMessages)>> >>,
                         SupervisedTools(trace)),
             trace.metadata))

\* From `if (messages.length === 0)` to the end of the supervised branch.
SupervisedExample(trace, messages) ==
  IF Len(messages) = 0 THEN Null
  ELSE SupervisedAssembled(trace, SelectSeq(messages, ValidMessage))

SupervisedFrom(trace, r) ==
  IF r.threw THEN r ELSE Returned(SupervisedExample(trace, r.v))

SupervisedObservations(trace, r) ==
  IF r.threw THEN r
  ELSE SupervisedFrom(trace,
         FromObservations(trace.observations, 1,
                          WithAssistant(r.v, trace.output)))

\* The supervised branch.
ConvertSupervised(trace) ==
  SupervisedObservations(trace, TraceInputMessages(trace))

\* example.reference_answer, when the metadata has a truthy one
AttachReferenceAnswer(example, metadata) ==
  IF Truthy(Get(metadata, REFERENCE_ANSWER))
  THEN SetKey(example, REFERENCE_ANSWER, Get(metadata, REFERENCE_ANSWER))
  ELSE example

\* example.tools of the reinforcement branch: any truthy value
AttachAnyTools(example, metadata) ==
  IF Truthy(Get(metadata, TOOLS))
  THEN SetKey(example, TOOLS, Get(metadata, TOOLS))
  ELSE example

ReinforcementExample(trace, r) ==
  IF r.threw THEN r
  ELSE IF Len(r.v) = 0 THEN Returned(Null)
  ELSE Returned(Obj(AttachAnyTools(
                      AttachReferenceAnswer(<< <<MESSAGES, Arr(r.v)>> >>,
                                            trace.metadata),
                      trace.metadata)))

\* The reinforcement branch: the input messages as they are.
ConvertReinforcement(trace) ==
  ReinforcementExample(trace,
    IF Truthy(trace.input) THEN InputMessages(trace.input)
    ELSE Returned(<<>>))

\* A preference branch that converts as the supervised one does.
ConvertPreference_AsSupervised(trace) == ConvertSupervised(trace)

\* The preference branch: no example is made.
ConvertPreference(trace) == Returned(Null)

\* The body of the try block.
TryBlock(trace, method) ==
  CASE method = supervised -> ConvertSupervised(trace)
    [] method = preference -> ConvertPreference(trace)
    [] method = reinforcement -> ConvertReinforcement(trace)
    [] OTHER -> Returned(Null)

\* A conversion whose exception is not caught.
TryCatch_Rethrow(r) == r

\* catch (error) { ...; return null; }
TryCatch(r) == IF r.threw THEN Returned(Null) ELSE r

convertTraceToTrainingExample(trace, method) ==
  TryCatch(TryBlock(trace, method))

\* ------------------------------------------------------------------------
\* ExampleAssembler: convert-traces/route.ts, lines 233-482
\* ------------------------------------------------------------------------
\* observations.map((obs) => ({ id: obs.traceId, ... }))
TraceOf(obs) ==
  [id |-> obs.traceId,
   input |-> obs.input,
   output |-> obs.output,
   metadata |-> IF Truthy(obs.metadata) THEN obs.metadata ELSE Obj(<<>>),
   observations |-> << obs >>]

Traces(batch) == [i \in 1..Len(batch) |-> TraceOf(batch[i])]

\* trace.id || trace.traceId || 'unknown' (a trace has no traceId field)
TraceId(trace) ==
  IF Truthy(trace.id) THEN trace.id ELSE Str(<<"unknown">>)

\* trace.input || trace.observations?.[0]?.input
HasInput(trace) ==
  Truthy(trace.input) \/ Truthy(trace.observations[1].input)

\* trace.output || trace.observations?.[0]?.output
HasOutput(trace) ==
  Truthy(trace.output) \/ Truthy(trace.observations[1].output)

\* The reason recorded for a trace whose conversion returned null.
NullReason(trace, method) ==
  IF method # supervised
  THEN <<"convertTraceToTrainingExample returned null">>
  ELSE IF ~HasInput(trace) /\ ~HasOutput(trace)
  THEN <<"no input or output found">>
  ELSE IF ~HasInput(trace) THEN <<"no input found">>
  ELSE IF ~HasOutput(trace) THEN <<"no output found">>
  ELSE <<"failed to extract messages">>

\* The entry of invalidTraces for the trace at batch position i, which the
\* code counts from 0 and reports as i + 1.
InvalidTrace(i, trace, reason) ==
  [index |-> i, traceId |-> TraceId(trace), reason |-> reason]

RECURSIVE FirstViolation(_, _)
\* The check of each message, which breaks at the first violation: its
\* reason, naming the message from 0, or <<>> when every message passes.
FirstViolation(messages, j) ==
  IF j > Len(messages) THEN <<>>
  ELSE IF ~Truthy(messages[j]) \/ ~TypeofObject(messages[j])
  THEN <<"message", j - 1, "is not an object">>
  ELSE IF ~Truthy(Get(messages[j], ROLE)) \/ ~IsString(Get(messages[j], ROLE))
  THEN <<"message", j - 1, "missing or invalid role">>
  ELSE IF IsNullish(Get(messages[j], CONTENT))
  THEN <<"message", j - 1, "missing content">>
  ELSE FirstViolation(messages, j + 1)

\* invalidTraces.push(...)
Reject(acc, i, trace, reason) ==
  [acc EXCEPT !.invalidTraces = Append(@, InvalidTrace(i, trace, reason))]

\* trainingExamples.push(example); acceptedFrom keeps the batch position
\* the example came from.
Accept(acc, i, example) ==
  [acc EXCEPT !.trainingExamples = Append(@, example),
              !.acceptedFrom = Append(@, i)]

\* After the check of each message: an empty messages array is reported
\* and skipped, any other example is pushed.
AfterMessageCheck(acc, i, trace, example, messages) ==
  IF Len(messages) = 0
  THEN Reject(acc, i, trace, <<"messages array is empty">>)
  ELSE Accept(acc, i, example)

\* The push of the first violation, after which the inner loop breaks.
PushViolation(acc, i, trace, violation) ==
  IF Len(violation) = 0 THEN acc ELSE Reject(acc, i, trace, violation)

\* The check of each message of a supervised example.
CheckMessages(acc, i, trace, example, messages) ==
  AfterMessageCheck(
    PushViolation(acc, i, trace, FirstViolation(messages, 1)),
    i, trace, example, messages)

\* `if (method === 'supervised') { ... }` on a converted example.
ValidateExample(acc, i, trace, example) ==
  IF ~Truthy(Get(example, MESSAGES)) \/ ~IsArray(Get(example, MESSAGES))
  THEN Reject(acc, i, trace, <<"missing messages array">>)
  ELSE CheckMessages(acc, i, trace, example,
                     Payload(Get(example, MESSAGES)))

\* The body of the loop over the traces, after the conversion.
Accumulate(acc, i, trace, method, example) ==
  IF ~Truthy(example)
  THEN Reject(acc, i, trace, NullReason(trace, method))
  ELSE IF method = supervised THEN ValidateExample(acc, i, trace, example)
  ELSE Accept(acc, i, example)

RECURSIVE ConvertLoop(_, _, _, _)
\* The loop over the traces; an exception that leaves the conversion ends
\* it.
ConvertLoop(traces, method, i, acc) ==
  IF i > Len(traces) THEN acc
  ELSE With(convertTraceToTrainingExample(traces[i], method), LAMBDA r :
    IF r.threw THEN [acc EXCEPT !.threw = TRUE]
    ELSE ConvertLoop(traces, method, i + 1,
                     Accumulate(acc, i, traces[i], method, r.v)))

NoneConverted ==
  [threw |-> FALSE, trainingExamples |-> <<>>, invalidTraces |-> <<>>,
   acceptedFrom |-> <<>>]

\* The number of invalid traces the handler logs.
LoggedInvalid == 20

\* traceId.substring(0, 8) of the logged entries throws a TypeError on a
\* traceId that is not a string.
LogThrows(invalid) ==
  \E k \in 1..Min(Len(invalid), LoggedInvalid) : ~IsString(invalid[k].traceId)

\* JSON.stringify(v, null, 2)
INDENT == <<SP, SP>>

RECURSIVE Pretty(_, _)
RECURSIVE PrettyElems(_, _)
RECURSIVE PrettyPairs(_, _)

PrettyElems(elems, ind) ==
  IF elems = <<>> THEN <<>>
  ELSE << ind \o (IF Head(elems) = Undefined THEN LitNull
                  ELSE Pretty(Head(elems), ind)) >>
         \o PrettyElems(Tail(elems), ind)

PrettyPairs(pairs, ind) ==
  IF pairs = <<>> THEN <<>>
  ELSE (IF Head(pairs)[2] = Undefined THEN <<>>
        ELSE << ind \o QuoteString(Head(pairs)[1]) \o <<":", SP>>
                  \o Pretty(Head(pairs)[2], ind) >>)
         \o PrettyPairs(Tail(pairs), ind)

\* The members or elements, one on a line, between the brackets.
PrettyBlock(open, lines, ind, close) ==
  IF Len(lines) = 0 THEN <<open, close>>
  ELSE <<open, NL>> \o Join(lines, <<",", NL>>) \o <<NL>> \o ind \o <<close>>

Pretty(v, ind) ==
  CASE Tag(v) = "arr" ->
         PrettyBlock("[", PrettyElems(Payload(v), ind \o INDENT), ind, "]")
    [] Tag(v) = "obj" ->
         PrettyBlock("{", PrettyPairs(Payload(v), ind \o INDENT), ind, "}")
    [] OTHER -> JSONStringify(v)

\* trainingExamples.map((ex) => JSON.stringify(ex, null, 2))
\*                 .join('\n\n---\n\n')
PrettyJsonl(examples) ==
  Join([k \in 1..Len(examples) |-> Pretty(examples[k], <<>>)], SEPARATOR)

\* trainingExamples.map((ex) => JSON.stringify(ex)).join('\n')
CompactJsonl(examples) ==
  Join([k \in 1..Len(examples) |-> JSONStringify(examples[k])], <<NL>>)

\* ------------------------------------------------------------------------
\* Inputs of the conversion call
\* ------------------------------------------------------------------------
\* The longest batch of observations a fetch returns.
MaxBatch == 2

Hi == Str(<<"hi">>)
Ok == Str(<<"ok">>)
User == Str(<<"user">>)

\* Messages as they come in an observation's input.
MsgUser == UserMessage(Hi)
MsgNullContent == Obj(<< <<ROLE, User>>, <<CONTENT, Null>> >>)
MsgNoContent == Obj(<< <<ROLE, User>> >>)
MsgEmptyContent == UserMessage(Str(<<>>))
MsgNoRole == Obj(<< <<CONTENT, Hi>> >>)
MsgEmptyRole == Obj(<< <<ROLE, Str(<<>>)>>, <<CONTENT, Hi>> >>)
MsgNumberRole == Obj(<< <<ROLE, Num(<<"1">>)>>, <<CONTENT, Hi>> >>)

Tool == Obj(<< <<<<"type">>, Str(<<"function">>)>> >>)
NoMetadata == Undefined
ToolsMetadata == Obj(<< <<TOOLS, Arr(<< Tool >>)>> >>)
FullMetadata ==
  Obj(<< <<TOOLS, Arr(<<>>)>>,
         <<PARALLEL_TOOL_CALLS, False>>,
         <<REFERENCE_ANSWER, Str(<<"42">>)>> >>)

TraceIdA == Str(<<"trace-id-a">>)

Observation(traceId, type, input, output, metadata) ==
  [traceId |-> traceId, type |-> type, input |-> input, output |-> output,
   metadata |-> metadata]

\* A generation whose input is the given value.
Generation(input, output) ==
  Observation(TraceIdA, GENERATION, input, output, NoMetadata)

\* The observations a fetch may return: every shape of input the
\* conversion tells apart, with and without an output.
Observations ==
  { Generation(Arr(<< MsgUser >>), AssistantMessage(Ok)),
    Generation(Str(<<"hello">>), Ok),
    Generation(Obj(<< <<MESSAGES, Arr(<< MsgUser >>)>> >>), Ok),
    Generation(Arr(<< MsgUser, MsgNullContent >>), Undefined),
    Generation(Arr(<< Null >>), Undefined),
    Generation(Arr(<< MsgNoRole >>), Ok),
    Generation(Arr(<< MsgEmptyRole >>), Undefined),
    Generation(Arr(<< MsgNumberRole, MsgUser >>), Undefined),
    Generation(Arr(<< MsgEmptyContent >>), Undefined),
    Generation(Arr(<< MsgNoContent >>), Undefined),
    Generation(Arr(<<>>), Undefined),
    Generation(Obj(<< <<MESSAGES, Num(<<"5">>)>> >>), Ok),
    Generation(Obj(<< <<MESSAGES, Str(<<"h", "i">>)>> >>), Undefined),
    Generation(Undefined, Ok),
    Generation(Undefined, Undefined),
    Generation(Num(<<"5">>), Obj(<< <<<<"answer">>, Num(<<"1">>)>> >>)),
    Generation(Arr(<< MsgUser >>),
               Obj(<< <<ROLE, Str(<<"assistant">>)>>, <<CONTENT, Null>> >>)),
    Observation(TraceIdA, Str(<<"SPAN">>), Str(<<"hello">>), Ok, NoMetadata),
    Observation(Undefined, Undefined, Arr(<< MsgUser >>), Ok, ToolsMetadata),
    Observation(Null, GENERATION, Arr(<< MsgUser >>), Undefined,
                FullMetadata) }

\* A batch with more invalid observations than the handler logs, one whose
\* conversion throws, and one that converts.
LongBatch ==
  [i \in 1..(LoggedInvalid + 1) |-> Generation(Undefined, Undefined)]
    \o << Generation(Obj(<< <<MESSAGES, Num(<<"5">>)>> >>), Ok),
          Generation(Str(<<"hello">>), Ok) >>

\* The batches of at most MaxBatch observations, and the long one.
Batches == UNION {[1..n -> Observations] : n \in 0..MaxBatch} \cup {LongBatch}

Methods == {supervised, preference, reinforcement}

\* limit = 100, offset = 0
DefaultLimit == 100
DefaultOffset == 0

RequestBody(promptName, version, method, limit, offset) ==
  [promptName |-> promptName, version |-> version, method |-> method,
   limit |-> limit, offset |-> offset]

PromptA == Str(<<"prompt-a">>)

\* The request bodies: the three methods with the default paging, a paged
\* and versioned request, and the requests the validation turns away.
ConvertBodies ==
  {RequestBody(PromptA, Undefined, m, <<>>, <<>>) : m \in Methods}
    \cup {RequestBody(PromptA, Str(<<"3">>), supervised, <<2>>, <<3>>),
          RequestBody(Undefined, Undefined, supervised, <<>>, <<>>),
          RequestBody(PromptA, Undefined, Undefined, <<>>, <<>>),
          RequestBody(PromptA, Undefined, Str(<<"other">>), <<>>, <<>>)}

LimitOf(body) == IF body.limit = <<>> THEN DefaultLimit ELSE body.limit[1]
OffsetOf(body) == IF body.offset = <<>> THEN DefaultOffset ELSE body.offset[1]

\* Math.floor(offset / limit) + 1, for a positive limit
Page(body) == (OffsetOf(body) \div LimitOf(body)) + 1

\* The query of the observations request.
FetchRequest(body) ==
  [limit |-> LimitOf(body), page |-> Page(body),
   promptName |-> body.promptName, versionFilter |-> Truthy(body.version)]

NoFetchRequest ==
  [limit |-> 0, page |-> 0, promptName |-> Undefined,
   versionFilter |-> FALSE]

\* ------------------------------------------------------------------------
\* The conversion call: convert-traces/route.ts, POST
\* ------------------------------------------------------------------------
ConvertFilename == <<"finetune", "convert-traces">>

NoInvalidTraces == [defined |-> FALSE, v |-> <<>>]

ConvertError(status, error) ==
  [status |-> status, success |-> FALSE, error |-> error,
   examples |-> <<>>, jsonl |-> <<>>, blobUrl |-> NoUrl, count |-> 0,
   totalObservations |-> 0, invalidTraces |-> NoInvalidTraces,
   invalidCount |-> 0]

NoConvertResponse == ConvertError(0, "")

\* !promptName || typeof promptName !== 'string'
PromptNameMissing(body) ==
  ~Truthy(body.promptName) \/ ~IsString(body.promptName)

\* !method || !['supervised', 'preference', 'reinforcement'].includes(method)
MethodInvalid(body) == ~Truthy(body.method) \/ body.method \notin Methods

\* POST up to its await of fetch: the request is validated, the
\* credentials read, the query built.
ConvertPOST ==
  /\ convPc = "idle"
  /\ \E body \in ConvertBodies, credentials \in BOOLEAN :
       /\ convBody' = body
       /\ IF PromptNameMissing(body)
          THEN /\ convResponse' = ConvertError(400, "promptName is required")
               /\ convPc' = "done"
               /\ UNCHANGED fetchRequest
          ELSE IF MethodInvalid(body)
          THEN /\ convResponse' =
                    ConvertError(400, "method must be one of: supervised, preference, reinforcement")
               /\ convPc' = "done"
               /\ UNCHANGED fetchRequest
          ELSE IF ~credentials
          THEN /\ convResponse' =
                    ConvertError(500, "Langfuse credentials not configured")
               /\ convPc' = "done"
               /\ UNCHANGED fetchRequest
          ELSE /\ fetchRequest' = FetchRequest(body)
               /\ convPc' = "fetching"
               /\ UNCHANGED convResponse
  /\ UNCHANGED <<observations, trainingExamples, invalidTraces, acceptedFrom,
                 jsonl, compactJsonl, convPuts>>
  /\ UNCHANGED <<saveVars, callVars, reqVars, pageVars>>

\* The fetch rejects: the exception reaches the outer catch.
FetchRejects ==
  /\ convPc = "fetching"
  /\ convResponse' = ConvertError(500, "fetch failed")
  /\ convPc' = "done"
  /\ UNCHANGED <<convBody, fetchRequest, observations, trainingExamples,
                 invalidTraces, acceptedFrom, jsonl, compactJsonl, convPuts>>
  /\ UNCHANGED <<saveVars, callVars, reqVars, pageVars>>

\* !response.ok
FetchNotOk ==
  /\ convPc = "fetching"
  /\ convResponse' = ConvertError(500, "Failed to fetch traces")
  /\ convPc' = "done"
  /\ UNCHANGED <<convBody, fetchRequest, observations, trainingExamples,
                 invalidTraces, acceptedFrom, jsonl, compactJsonl, convPuts>>
  /\ UNCHANGED <<saveVars, callVars, reqVars, pageVars>>

\* The fetch answers with a batch: the observations are mapped to traces,
\* every trace converted and validated, the invalid ones logged, the
\* examples serialized, up to the await of put.
FetchOk ==
  /\ convPc = "fetching"
  /\ \E batch \in Batches :
     \E res \in {ConvertLoop(Traces(batch), convBody.method, 1,
                             NoneConverted)} :
       /\ observations' = batch
       /\ IF res.threw \/ LogThrows(res.invalidTraces)
          THEN /\ convResponse' = ConvertError(500, "TypeError")
               /\ convPc' = "done"
               /\ UNCHANGED <<trainingExamples, invalidTraces, acceptedFrom,
                              jsonl, compactJsonl>>
          ELSE /\ trainingExamples' = res.trainingExamples
               /\ invalidTraces' = res.invalidTraces
               /\ acceptedFrom' = res.acceptedFrom
               /\ jsonl' = PrettyJsonl(res.trainingExamples)
               /\ compactJsonl' = CompactJsonl(res.trainingExamples)
               /\ convPc' = "putting"
               /\ UNCHANGED convResponse
  /\ UNCHANGED <<convBody, fetchRequest, convPuts>>
  /\ UNCHANGED <<saveVars, callVars, reqVars, pageVars>>

\* await put(filename, compactJsonl, ...) and the success response.
ConvertPut ==
  /\ convPc = "putting"
  /\ convPuts' =
       Append(convPuts,
              [filename |-> ConvertFilename, content |-> compactJsonl])
  /\ convResponse' =
       [status |-> 200, success |-> TRUE, error |-> "",
        examples |-> trainingExamples, jsonl |-> jsonl,
        blobUrl |-> UrlOf(ConvertFilename),
        count |-> Len(trainingExamples),
        totalObservations |-> Len(observations),
        invalidTraces |->
          IF Len(invalidTraces) > 0
          THEN [defined |-> TRUE, v |-> invalidTraces]
          ELSE NoInvalidTraces,
        invalidCount |-> Len(invalidTraces)]
  /\ convPc' = "done"
  /\ UNCHANGED <<convBody, fetchRequest, observations, trainingExamples,
                 invalidTraces, acceptedFrom, jsonl, compactJsonl>>
  /\ UNCHANGED <<saveVars, callVars, reqVars, pageVars>>

\* The put rejects: the exception reaches the outer catch.
ConvertPutRejects ==
  /\ convPc = "putting"
  /\ convResponse' = ConvertError(500, "put failed")
  /\ convPc' = "done"
  /\ UNCHANGED <<convBody, fetchRequest, observations, trainingExamples,
                 invalidTraces, acceptedFrom, jsonl, compactJsonl, convPuts>>
  /\ UNCHANGED <<saveVars, callVars, reqVars, pageVars>>

ConvInit ==
  /\ convPc = "idle"
  /\ convBody = RequestBody(Undefined, Undefined, Undefined, <<>>, <<>>)
  /\ fetchRequest = NoFetchRequest
  /\ observations = <<>>
  /\ trainingExamples = <<>>
  /\ invalidTraces = <<>>
  /\ acceptedFrom = <<>>
  /\ jsonl = <<>>
  /\ compactJsonl = <<>>
  /\ convPuts = <<>>
  /\ convResponse = NoConvertResponse

ConvNext ==
  \/ ConvertPOST
  \/ FetchRejects
  \/ FetchNotOk
  \/ FetchOk
  \/ ConvertPut
  \/ ConvertPutRejects

\* ------------------------------------------------------------------------
\* Calls of convertTraceToTrainingExample and extractOutputContent on
\* traces and outputs of every shape, outside a request
\* ------------------------------------------------------------------------
Hello == Str(<<"Hello">>)
HiThere == Str(<<"Hi there">>)
Answer == Str(<<"Answer">>)
Assistant == Str(<<"assistant">>)

\* Messages that only a trace-level input or output produces.
TraceQuestion == UserMessage(Str(<<"trace question">>))
TraceAnswer == AssistantMessage(Str(<<"trace answer">>))

TraceLevelInputs ==
  {Undefined, Hello, Str(<<SP>>), Str(<<>>), Arr(<< TraceQuestion >>),
   Obj(<< <<MESSAGES, Arr(<< TraceQuestion >>)>> >>),
   Obj(<< <<MESSAGES, Num(<<"5">>)>> >>)}

TraceLevelOutputs ==
  {Undefined, HiThere, Str(<<SP>>), TraceAnswer, AssistantMessage(Str(<<>>))}

ObservationInputs ==
  {Undefined, Str(<<"obs question">>), Arr(<< MsgUser >>),
   Arr(<< MsgNoRole, MsgUser >>), Arr(<< MsgNullContent, MsgEmptyContent >>),
   Obj(<<>>), Obj(<< <<MESSAGES, Num(<<"5">>)>> >>)}

ObservationOutputs ==
  {Undefined, Ok, AssistantMessage(Ok), AssistantMessage(Str(<<>>)),
   Obj(<< <<ROLE, Assistant>>, <<CONTENT, Null>> >>)}

ObservationTypes == {GENERATION, Str(<<"SPAN">>), Undefined}

\* Observations that come after the first one of a list.
Span == Str(<<"SPAN">>)
LaterGeneration ==
  Observation(TraceIdA, GENERATION, Str(<<"later question">>),
              Str(<<"later answer">>), NoMetadata)
SpanObservation ==
  Observation(TraceIdA, Span, Str(<<"span question">>),
              Str(<<"span answer">>), NoMetadata)

\* Lists of two and three observations: a first match with neither input
\* nor output, with both, with an output only, behind a span, and no match.
LongerLists ==
  {<< Observation(TraceIdA, GENERATION, Undefined, Undefined, NoMetadata),
      LaterGeneration >>,
   << Observation(TraceIdA, Undefined, Arr(<< MsgUser >>), Ok, NoMetadata),
      LaterGeneration >>,
   << SpanObservation,
      Observation(TraceIdA, GENERATION, Undefined, Ok, NoMetadata),
      LaterGeneration >>,
   << SpanObservation, SpanObservation >>}

\* The observation lists of a trace: none, one observation of any shape,
\* a span followed by a generation, and the longer lists.
ObservationLists ==
  {<<>>}
    \cup {<< Observation(TraceIdA, type, input, output, NoMetadata) >> :
            type \in ObservationTypes, input \in ObservationInputs,
            output \in ObservationOutputs}
    \cup {<< Observation(TraceIdA, Str(<<"SPAN">>), Arr(<< MsgUser >>), Ok,
                         NoMetadata),
             Observation(TraceIdA, GENERATION, Str(<<"obs question">>),
                         AssistantMessage(Ok), ToolsMetadata) >>}
    \cup LongerLists

TraceMetadata == {Undefined, Obj(<<>>), FullMetadata}

CallTraces ==
  [id : {TraceIdA}, input : TraceLevelInputs, output : TraceLevelOutputs,
   metadata : TraceMetadata, observations : ObservationLists]

\* The outputs extractOutputContent is called on.
One == Num(<<"1">>)
ResultObject == Obj(<< <<<<"result">>, Obj(<< <<<<"x">>, One>> >>)>> >>)

Outputs ==
  {Undefined, Null, Str(<<>>), Answer, Str(<<SP>>), Num(<<"0">>), One,
   False, True, Arr(<<>>), Arr(<< One >>), Obj(<<>>), ResultObject,
   Obj(<< <<ROLE, Assistant>>, <<CONTENT, Answer>> >>),
   Obj(<< <<ROLE, Assistant>>, <<CONTENT, Str(<<>>)>> >>),
   Obj(<< <<ROLE, Assistant>>, <<CONTENT, Null>> >>),
   Obj(<< <<ROLE, Assistant>>, <<CONTENT, ResultObject>> >>),
   Obj(<< <<ROLE, Assistant>> >>),
   Obj(<< <<CONTENT, Answer>> >>),
   Obj(<< <<CONTENT, Arr(<< One >>)>> >>),
   Obj(<< <<CONTENT, Null>> >>),
   Obj(<< <<CONTENT, False>>, <<<<"result">>, One>> >>)}

\* convertTraceToTrainingExample(trace, method)
ConvertCall ==
  /\ callPc = "idle"
  /\ \E trace \in CallTraces, method \in Methods :
       /\ callTrace' = trace
       /\ callMethod' = method
       /\ callResult' = convertTraceToTrainingExample(trace, method)
  /\ callPc' = "converted"
  /\ UNCHANGED <<extractOutput, extractResult>>
  /\ UNCHANGED <<saveVars, convVars, reqVars, pageVars>>

\* extractOutputContent(output)
ExtractCall ==
  /\ callPc = "idle"
  /\ \E output \in Outputs :
       /\ extractOutput' = output
       /\ extractResult' = Returned(extractOutputContent(output))
  /\ callPc' = "extracted"
  /\ UNCHANGED <<callTrace, callMethod, callResult>>
  /\ UNCHANGED <<saveVars, convVars, reqVars, pageVars>>

CallInit ==
  /\ callPc = "idle"
  /\ callTrace = [id |-> Undefined, input |-> Undefined, output |-> Undefined,
                  metadata |-> Undefined, observations |-> <<>>]
  /\ callMethod = Undefined
  /\ callResult = Returned(Undefined)
  /\ extractOutput = Undefined
  /\ extractResult = Returned(Undefined)

CallNext ==
  \/ ConvertCall
  \/ ExtractCall

\* ------------------------------------------------------------------------
\* Concurrent save/split calls: save-training-data/route.ts POST, run for
\* several requests over one clock and one store
\* ------------------------------------------------------------------------
\* The two save/split calls in flight together.
SaveCalls == {1, 2}

ConcurrentBodies ==
  [data : {Str(ExA), Str(Broken), Str(Blank), Undefined},
   method : {supervised, reinforcement},
   trainSplitRatio : {<<>>}]

NoLines ==
  [compact |-> <<>>, shuffled |-> <<>>, training |-> <<>>,
   validation |-> <<>>]

\* A millisecond passes.
Tick ==
  /\ clock < ClockStart + MaxTicks
  /\ clock' = clock + 1
  /\ UNCHANGED <<reqPc, reqBody, reqStamp, reqLines, reqResponse, gateway>>
  /\ UNCHANGED <<saveVars, convVars, callVars, pageVars>>

\* The call answers without having put anything.
Answers(c, response) ==
  /\ reqResponse' = [reqResponse EXCEPT ![c] = response]
  /\ reqPc' = [reqPc EXCEPT ![c] = "done"]
  /\ UNCHANGED <<reqStamp, reqLines>>

\* POST of call c up to its first await of put (lines 8-187): one
\* synchronous step, which reads the clock once (line 175).
Request(c) ==
  /\ reqPc[c] = "idle"
  /\ \E body \in ConcurrentBodies :
       /\ reqBody' = [reqBody EXCEPT ![c] = body]
       /\ IF DataMissing(body)
          THEN Answers(c, SaveError(400, "Training data is required", 0, ""))
          ELSE \E bs \in {SplitBlocks(Payload(body.data))} :
               \E rep \in {RepairLoop(bs, 1, <<>>)} :
                  IF bs = <<>>
                  THEN Answers(c, SaveError(400, "No training examples found",
                                            0, ""))
                  ELSE IF ~rep.ok
                  THEN Answers(c, SaveError(400, "Invalid JSON on example",
                                            rep.index, rep.cause))
                  ELSE \E sh \in Shuffles(rep.lines) :
                       \E splitIndex \in {SplitIndex(sh, RatioOf(body))} :
                          /\ reqStamp' =
                               [reqStamp EXCEPT
                                  ![c] = generateTimestampPrefix(clock)]
                          /\ reqLines' =
                               [reqLines EXCEPT
                                  ![c] =
                                    [compact |-> rep.lines,
                                     shuffled |-> sh,
                                     training |->
                                       TrainingLines(sh, splitIndex),
                                     validation |->
                                       ValidationLines(sh, splitIndex)]]
                          /\ reqPc' = [reqPc EXCEPT ![c] = "putTraining"]
                          /\ UNCHANGED reqResponse
  /\ UNCHANGED <<clock, gateway>>
  /\ UNCHANGED <<saveVars, convVars, callVars, pageVars>>

PutStages == {"putTraining", "putValidation", "putCombined"}

\* The artifact kind the call puts at a stage, and the stage after it.
KindAt(pc) ==
  CASE pc = "putTraining" -> "training"
    [] pc = "putValidation" -> "validation"
    [] pc = "putCombined" -> "combined"

StageAfter(pc) ==
  CASE pc = "putTraining" -> "putValidation"
    [] pc = "putValidation" -> "putCombined"
    [] pc = "putCombined" -> "done"

\* trainingLines, validationLines or compactLines of call c.
LinesAt(c, pc) ==
  CASE pc = "putTraining" -> reqLines[c].training
    [] pc = "putValidation" -> reqLines[c].validation
    [] pc = "putCombined" ->
         CombinedLines(reqLines[c].compact, reqLines[c].shuffled)

\* put(filename, content, { ..., addRandomSuffix: true }) as the store sees
\* it, and whether the store accepted it.
Handed(c, accepted) ==
  [call |-> c, accepted |-> accepted,
   put |-> PutRecord(KindAt(reqPc[c]), reqBody[c].method, reqStamp[c],
                     LinesAt(c, reqPc[c]))]

\* The success response of call c (lines 219-229).
SuccessOf(c) ==
  [status |-> 200, success |-> TRUE, error |-> "", index |-> 0,
   cause |-> "",
   blobUrl |-> UrlOf(Filename("combined", reqBody[c].method, reqStamp[c])),
   trainingBlobUrl |->
     UrlOf(Filename("training", reqBody[c].method, reqStamp[c])),
   validationBlobUrl |->
     UrlOf(Filename("validation", reqBody[c].method, reqStamp[c])),
   trainingCount |-> Len(reqLines[c].training),
   validationCount |-> Len(reqLines[c].validation),
   trainSplitRatio |-> RatioOf(reqBody[c])]

\* An awaited put of call c resolves: the next put follows, or after the
\* combined put the success response.
CallPut(c) ==
  /\ reqPc[c] \in PutStages
  /\ gateway' = Append(gateway, Handed(c, TRUE))
  /\ reqPc' = [reqPc EXCEPT ![c] = StageAfter(reqPc[c])]
  /\ reqResponse' =
       [reqResponse EXCEPT
          ![c] = IF reqPc[c] = "putCombined" THEN SuccessOf(c) ELSE @]
  /\ UNCHANGED <<clock, reqBody, reqStamp, reqLines>>
  /\ UNCHANGED <<saveVars, convVars, callVars, pageVars>>

\* A rejected put that is swallowed: the call goes on with the next put
\* and, after the combined one, answers success.
CallPutRejects_Continues(c) ==
  /\ reqPc[c] \in PutStages
  /\ gateway' = Append(gateway, Handed(c, FALSE))
  /\ reqPc' = [reqPc EXCEPT ![c] = StageAfter(reqPc[c])]
  /\ reqResponse' =
       [reqResponse EXCEPT
          ![c] = IF reqPc[c] = "putCombined" THEN SuccessOf(c) ELSE @]
  /\ UNCHANGED <<clock, reqBody, reqStamp, reqLines>>
  /\ UNCHANGED <<saveVars, convVars, callVars, pageVars>>

\* An awaited put of call c rejects: the outer catch answers 500.
CallPutRejects(c) ==
  /\ reqPc[c] \in PutStages
  /\ gateway' = Append(gateway, Handed(c, FALSE))
  /\ reqPc' = [reqPc EXCEPT ![c] = "done"]
  /\ reqResponse' =
       [reqResponse EXCEPT ![c] = SaveError(500, "put failed", 0, "")]
  /\ UNCHANGED <<clock, reqBody, reqStamp, reqLines>>
  /\ UNCHANGED <<saveVars, convVars, callVars, pageVars>>

ReqInit ==
  /\ clock = ClockStart
  /\ reqPc = [c \in SaveCalls |-> "idle"]
  /\ reqBody = [c \in SaveCalls |->
                  [data |-> Undefined, method |-> Undefined,
                   trainSplitRatio |-> <<>>]]
  /\ reqStamp = [c \in SaveCalls |-> <<>>]
  /\ reqLines = [c \in SaveCalls |-> NoLines]
  /\ reqResponse = [c \in SaveCalls |-> NoResponse]
  /\ gateway = <<>>

ReqNext ==
  \/ Tick
  \/ \E c \in SaveCalls : Request(c)
  \/ \E c \in SaveCalls : CallPut(c)
  \/ \E c \in SaveCalls : CallPutRejects(c)

\* ------------------------------------------------------------------------
\* The finetune page: page.tsx, handleFetchTraces (lines 683-798), and the
\* query each conversion call builds from the body it is sent
\* ------------------------------------------------------------------------
\* const maxLimitPerRequest = 100
MaxLimitPerRequest == 100
\* The largest number of traces asked for.
MaxTotal == 250

\* Math.ceil(totalToFetch / maxLimitPerRequest)
NumRequests(totalToFetch) ==
  (totalToFetch + MaxLimitPerRequest - 1) \div MaxLimitPerRequest

\* Math.min(maxLimitPerRequest, totalToFetch - i * maxLimitPerRequest)
CurrentLimit(totalToFetch, i) ==
  Min(MaxLimitPerRequest, totalToFetch - i * MaxLimitPerRequest)

\* The body of the i-th request of the loop.
BatchBody(totalToFetch, i) ==
  RequestBody(PromptA, Undefined, supervised,
              << CurrentLimit(totalToFetch, i) >>,
              << i * MaxLimitPerRequest >>)

\* The click on "fetch": without a selected prompt an error is shown,
\* otherwise the loop begins.
HandleFetchTraces ==
  /\ pagePc = "idle"
  /\ \E selected \in BOOLEAN, total \in 1..MaxTotal :
       IF ~selected
       THEN /\ traceFetchError' = "Please select a prompt"
            /\ pagePc' = "done"
            /\ UNCHANGED traceLimit
       ELSE /\ traceLimit' = total
            /\ traceFetchError' = ""
            /\ pagePc' = "fetching"
  /\ UNCHANGED <<batchIndex, batchBodies, upstreamQueries>>
  /\ UNCHANGED <<saveVars, convVars, callVars, reqVars>>

\* One turn of the loop whose response is ok: the body is posted, the
\* conversion call builds its upstream query from it, the results are
\* taken.
FetchBatch ==
  /\ pagePc = "fetching"
  /\ batchIndex < NumRequests(traceLimit)
  /\ batchBodies' = Append(batchBodies, BatchBody(traceLimit, batchIndex))
  /\ upstreamQueries' =
       Append(upstreamQueries, FetchRequest(BatchBody(traceLimit, batchIndex)))
  /\ batchIndex' = batchIndex + 1
  /\ UNCHANGED <<pagePc, traceLimit, traceFetchError>>
  /\ UNCHANGED <<saveVars, convVars, callVars, reqVars>>

\* One turn of the loop whose response is not ok: the error is thrown to
\* the catch of handleFetchTraces.
FetchBatchNotOk ==
  /\ pagePc = "fetching"
  /\ batchIndex < NumRequests(traceLimit)
  /\ batchBodies' = Append(batchBodies, BatchBody(traceLimit, batchIndex))
  /\ upstreamQueries' =
       Append(upstreamQueries, FetchRequest(BatchBody(traceLimit, batchIndex)))
  /\ traceFetchError' = "Failed to fetch traces"
  /\ pagePc' = "done"
  /\ UNCHANGED <<traceLimit, batchIndex>>
  /\ UNCHANGED <<saveVars, convVars, callVars, reqVars>>

\* After the last turn: the combined results are saved and shown.
SaveFetched ==
  /\ pagePc = "fetching"
  /\ batchIndex = NumRequests(traceLimit)
  /\ pagePc' = "fetched"
  /\ UNCHANGED <<traceLimit, batchIndex, batchBodies, upstreamQueries,
                 traceFetchError>>
  /\ UNCHANGED <<saveVars, convVars, callVars, reqVars>>

PageInit ==
  /\ pagePc = "idle"
  /\ traceLimit = MaxLimitPerRequest
  /\ batchIndex = 0
  /\ batchBodies = <<>>
  /\ upstreamQueries = <<>>
  /\ traceFetchError = ""

PageNext ==
  \/ HandleFetchTraces
  \/ FetchBatch
  \/ FetchBatchNotOk
  \/ SaveFetched

\* ------------------------------------------------------------------------
\* Specifications: one per handler, over the same state
\* ------------------------------------------------------------------------
Init == SaveInit /\ ConvInit /\ CallInit /\ ReqInit /\ PageInit

SpecSave == Init /\ [][SaveNext]_vars

SpecConvert == Init /\ [][ConvNext]_vars

SpecCall == Init /\ [][CallNext]_vars

SpecConcurrentSaves == Init /\ [][ReqNext]_vars

SpecFetchTraces == Init /\ [][PageNext]_vars

\* ------------------------------------------------------------------------
\* Properties of the save/split call (checked under SpecSave)
\* ------------------------------------------------------------------------
SaveSucceeded == savePc = "done" /\ saveResponse.success

\* The text of the request, when it has one.
IngestText == Payload(saveBody.data)

\* The trimmed pieces the text is cut into, before any is dropped.
Pieces(data) ==
  MapTrim(Split(Trim(data),
                IF Includes(data, SEPARATOR) THEN SEPARATOR ELSE <<NL>>))

RECURSIVE ValuesFrom(_, _)
\* How many complete JSON values follow one another in t from position i.
ValuesFrom(t, i) ==
  LET r == ParseValue(t, i)
  IN IF i > Len(t) \/ ~r.ok THEN 0 ELSE 1 + ValuesFrom(t, r.next)

\* The records a piece holds: nothing for a blank piece or a bare `---`,
\* every JSON value it starts with otherwise, and one at least.
RecordsIn(piece) ==
  IF piece = <<>> \/ piece = DASHES THEN 0
  ELSE Max(1, ValuesFrom(piece, 1))

RECURSIVE RecordCount(_)
RecordCount(pieces) ==
  IF pieces = <<>> THEN 0
  ELSE RecordsIn(Head(pieces)) + RecordCount(Tail(pieces))

\* C4: a successful save/split call never omits a record: the combined
\* artifact holds as many lines as the ingest text holds records, so a block
\* of two JSON values, or a line that begins with `---` and goes on, either
\* contributes all its records or fails the request.
C4_NoRecordOmitted ==
  SaveSucceeded =>
    Len(Split(blobPuts[Len(blobPuts)].content, <<NL>>))
      = RecordCount(Pieces(IngestText))

\* A block none of the three strategies recovers a value from.
Unrecoverable(block) == ~RecoverValue(block).ok

FirstUnrecoverable(bs) ==
  CHOOSE i \in DOMAIN bs :
    Unrecoverable(bs[i]) /\ \A k \in 1..(i - 1) : ~Unrecoverable(bs[k])

\* C5: when some candidate block cannot be recovered by direct parse, the
\* brace-matching scan or the line-join fallback, nothing is put, and the
\* call ends in an error response that names the 1-based index of the first
\* such block.
C5_ErrorNamesFirstUnrecoverable ==
  (\E i \in DOMAIN blocks : Unrecoverable(blocks[i])) =>
    /\ blobPuts = <<>>
    /\ savePc = "done" =>
         /\ ~saveResponse.success
         /\ saveResponse.index = FirstUnrecoverable(blocks)

\* The lines of a text that is made of compact lines only.
CompactLinesOf(data) == Split(data, <<NL>>)

\* A valid compact line: the one-line serialization of a JSON object or
\* array.
ValidCompactLine(line) ==
  /\ JSONParse(line).ok
  /\ Tag(JSONParse(line).v) \in {"obj", "arr"}
  /\ JSONStringify(JSONParse(line).v) = line

AllValidCompactLines ==
  /\ IsString(saveBody.data)
  /\ \A i \in DOMAIN CompactLinesOf(IngestText) :
       ValidCompactLine(CompactLinesOf(IngestText)[i])

\* The ratio the claim speaks of: the caller's, and 0.8 when omitted.
ClaimedRatio ==
  IF saveBody.trainSplitRatio = <<>> THEN <<4, 5>>
  ELSE saveBody.trainSplitRatio[1]

\* k = round(n * r), halves rounded up: k - 1/2 <= n * r < k + 1/2.
IsRoundHalfUp(k, n, r) ==
  /\ (2 * k - 1) * r[2] <= 2 * n * r[1]
  /\ 2 * n * r[1] < (2 * k + 1) * r[2]

\* C6: for n >= 1 valid compact lines and a ratio r in [0, 1], a call whose
\* puts succeed returns trainingCount = round(n * r), halves rounded up,
\* and trainingCount + validationCount = n; ten lines at 0.8, or with the
\* ratio omitted, give 8 and 2.
C6_SplitCounts ==
  (/\ savePc = "done"
   /\ saveResponse.status # 500
   /\ AllValidCompactLines
   /\ 0 <= ClaimedRatio[1]
   /\ ClaimedRatio[1] <= ClaimedRatio[2]) =>
    LET n == Len(CompactLinesOf(IngestText))
    IN /\ saveResponse.success
       /\ IsRoundHalfUp(saveResponse.trainingCount, n, ClaimedRatio)
       /\ saveResponse.trainingCount + saveResponse.validationCount = n
       /\ (n = 10 /\ ClaimedRatio = <<4, 5>>) =>
            /\ saveResponse.trainingCount = 8
            /\ saveResponse.validationCount = 2

\* Ten lines and no trainSplitRatio: 8 for training, 2 for validation.
C6_Witness ==
  /\ SaveSucceeded
  /\ IngestText = TenLines
  /\ saveBody.trainSplitRatio = <<>>
  /\ saveResponse.trainingCount = 8

\* C7: whatever the ratio, below 0 and above 1 included, the training lines
\* followed by the validation lines are a permutation of the repaired
\* lines, and the two counts add up to their number.
C7_SplitIsPermutation ==
  /\ savePc \in {"putTraining", "putValidation", "putCombined"} =>
       IsPermutation(trainingLines \o validationLines, compactLines)
  /\ SaveSucceeded =>
       /\ IsPermutation(trainingLines \o validationLines, compactLines)
       /\ saveResponse.trainingCount = Len(trainingLines)
       /\ saveResponse.validationCount = Len(validationLines)
       /\ saveResponse.trainingCount + saveResponse.validationCount
            = Len(compactLines)

\* A negative ratio, two different lines, both of them kept.
C7_Witness ==
  /\ SaveSucceeded
  /\ saveBody.trainSplitRatio = << <<-1, 2>> >>
  /\ Len(compactLines) = 2
  /\ compactLines[1] # compactLines[2]
  /\ trainingLines # <<>>
  /\ validationLines # <<>>

\* The content of the combined artifact, once it is put.
CombinedPut ==
  CHOOSE p \in Range(blobPuts) : p.filename[2] = "combined"

CombinedIsPut == \E p \in Range(blobPuts) : p.filename[2] = "combined"

\* C8: the combined artifact holds the repaired values in the order of
\* their blocks: its line i is the compact serialization of the value of
\* block i, whatever the shuffle did.
C8_CombinedKeepsOrder ==
  CombinedIsPut =>
    LET lines == Split(CombinedPut.content, <<NL>>)
    IN /\ Len(lines) = Len(blocks)
       /\ \A i \in DOMAIN blocks :
            lines[i] = JSONStringify(RepairBlock(blocks[i]).v)

\* The shuffle changed the order and the combined artifact did not follow.
C8_Witness ==
  /\ CombinedIsPut
  /\ shuffledLines # compactLines
  /\ Len(blocks) = 2

\* The repairer run over a text.
Repairer(data) == RepairLoop(SplitBlocks(data), 1, <<>>)

\* C9: the repairer is idempotent: its own compact output, fed back to it,
\* is accepted and gives the same values, as many and in the same order.
C9_RepairerIdempotent ==
  (savePc # "idle" /\ compactLines # <<>>) =>
    LET again == SplitBlocks(Join(compactLines, <<NL>>))
    IN /\ Repairer(Join(compactLines, <<NL>>)).ok
       /\ Len(again) = Len(blocks)
       /\ \A i \in DOMAIN blocks :
            /\ RepairBlock(again[i]).ok
            /\ RepairBlock(again[i]).v = RepairBlock(blocks[i]).v

\* A block that was not in compact form (an indented one, or one with
\* trailing text) was accepted.
C9_Witness ==
  /\ compactLines # <<>>
  /\ \E i \in DOMAIN blocks : blocks[i] \in {PrettyA, EscapedQuote}

\* block = value \o rest, where value is a whole JSON object or array and
\* rest is not empty, and the block itself is no JSON document.
LeadingValueAt(block, k) ==
  /\ k < Len(block)
  /\ block[1] \in {"{", "["}
  /\ block[k] \in {"}", "]"}
  /\ JSONParse(SubSeq(block, 1, k)).ok
  /\ ~JSONParse(block).ok

\* C10: for a block made of one complete JSON object or array and trailing
\* text, direct parse fails and the scan recovers exactly the leading value;
\* braces and brackets inside strings, and escaped quotes, do not mislead it.
C10_ScanRecoversLeadingValue ==
  \A i \in DOMAIN blocks :
    \A k \in DOMAIN blocks[i] :
      LeadingValueAt(blocks[i], k) =>
        LET scan == BraceScan(blocks[i], 1, -1, 0, FALSE, FALSE)
        IN /\ scan.kind = "parsed"
           /\ scan.v = JSONParse(SubSeq(blocks[i], 1, k)).v
           /\ RepairBlock(blocks[i]) = RepairOk(scan.v)

\* {"a":"}"} junk was a block and {"a":"}"} is the line made of it.
C10_Witness ==
  \E i \in DOMAIN blocks :
    /\ blocks[i] = StringBrace
    /\ i \in DOMAIN compactLines
    /\ compactLines[i] =
         <<"{", QUOTE, "a", QUOTE, ":", QUOTE, "}", QUOTE, "}">>

\* ------------------------------------------------------------------------
\* Properties of the conversion call (checked under SpecConvert)
\* ------------------------------------------------------------------------
ConvertSucceeded == convPc = "done" /\ convResponse.success

\* A chat message of the data model: an object whose role is a non-empty
\* string and whose content is neither null nor absent.
WellFormedMessage(msg) ==
  /\ Tag(msg) = "obj"
  /\ HasKey(msg, ROLE)
  /\ Tag(Get(msg, ROLE)) = "str"
  /\ Payload(Get(msg, ROLE)) # <<>>
  /\ Tag(Get(msg, CONTENT)) \notin {"null", "undefined"}

\* An example with at least one message, all of them well formed.
WellFormedExample(ex) ==
  /\ Tag(ex) = "obj"
  /\ Tag(Get(ex, MESSAGES)) = "arr"
  /\ Len(Payload(Get(ex, MESSAGES))) >= 1
  /\ \A k \in 1..Len(Payload(Get(ex, MESSAGES))) :
       WellFormedMessage(Payload(Get(ex, MESSAGES))[k])

\* Every example the call has accepted, and every example it answers
\* with, is well formed.
AcceptedWellFormed ==
  /\ \A k \in 1..Len(trainingExamples) :
       WellFormedExample(trainingExamples[k])
  /\ \A k \in 1..Len(convResponse.examples) :
       WellFormedExample(convResponse.examples[k])

\* The input of the observation an array with a message that is not well
\* formed.
HasMalformedMessage(obs) ==
  /\ Tag(obs.input) = "arr"
  /\ \E k \in 1..Len(Payload(obs.input)) :
       ~WellFormedMessage(Payload(obs.input)[k])

\* C1: under method supervised, every accepted example has at least one
\* message, and every message of it is an object whose role is a non-empty
\* string and whose content is neither null nor undefined.
C1_SupervisedExamplesWellFormed ==
  convBody.method = supervised => AcceptedWellFormed

\* A supervised call answered with an example made from an observation
\* whose input held a malformed message.
C1_Witness ==
  /\ ConvertSucceeded
  /\ convBody.method = supervised
  /\ \E k \in 1..Len(acceptedFrom) :
       HasMalformedMessage(observations[acceptedFrom[k]])

\* C2: under method reinforcement, every accepted example has at least one
\* message, and every message of it is an object whose role is a non-empty
\* string and whose content is neither null nor undefined: a trace whose
\* input holds a malformed message is rejected, not accepted.
C2_ReinforcementExamplesWellFormed ==
  convBody.method = reinforcement =>
    /\ AcceptedWellFormed
    /\ \A k \in 1..Len(acceptedFrom) :
         ~HasMalformedMessage(observations[acceptedFrom[k]])

\* The number of outcomes the record at batch position i has: its examples
\* and its entries of invalidTraces.
Outcomes(i) ==
  Cardinality({k \in 1..Len(acceptedFrom) : acceptedFrom[k] = i})
    + Cardinality({k \in 1..Len(invalidTraces) : invalidTraces[k].index = i})

\* Every entry of invalidTraces carries the position and the trace id of a
\* record of the batch.
InvalidEntriesNameRecords ==
  \A k \in 1..Len(invalidTraces) :
    /\ invalidTraces[k].index \in 1..Len(observations)
    /\ invalidTraces[k].traceId =
         TraceId(TraceOf(observations[invalidTraces[k].index]))

\* Every accepted example is the conversion of the record it came from.
ExamplesComeFromRecords ==
  /\ Len(acceptedFrom) = Len(trainingExamples)
  /\ \A k \in 1..Len(acceptedFrom) :
       /\ acceptedFrom[k] \in 1..Len(observations)
       /\ trainingExamples[k] =
            convertTraceToTrainingExample(
              TraceOf(observations[acceptedFrom[k]]), convBody.method).v

\* The summary of a successful response counts the whole batch and returns
\* every invalid trace.
SummaryCountsBatch ==
  convResponse.success =>
    /\ convResponse.count = Len(convResponse.examples)
    /\ convResponse.count + convResponse.invalidCount
         = convResponse.totalObservations
    /\ convResponse.totalObservations = Len(observations)
    /\ convResponse.invalidCount = Len(invalidTraces)
    /\ convResponse.invalidTraces.defined = (Len(invalidTraces) > 0)
    /\ convResponse.invalidTraces.defined =>
         convResponse.invalidTraces.v = invalidTraces

\* C3: conversion is fail-open and partitions the batch: no exception of a
\* conversion fails the request, every record of the batch has exactly one
\* outcome, an example or one entry of invalidTraces with its 1-based
\* position, so count + invalidCount = totalObservations = N, and
\* invalidTraces is returned in full.
C3_FailOpenPartition ==
  /\ convResponse.error # "TypeError"
  /\ \A i \in 1..Len(observations) : Outcomes(i) = 1
  /\ InvalidEntriesNameRecords
  /\ ExamplesComeFromRecords
  /\ SummaryCountsBatch

\* A successful call on a batch with more invalid records than are logged,
\* a record whose conversion threw and a record that was accepted.
C3_Witness ==
  /\ ConvertSucceeded
  /\ convResponse.count >= 1
  /\ convResponse.invalidCount > LoggedInvalid
  /\ Len(convResponse.invalidTraces.v) = convResponse.invalidCount
  /\ \E i \in 1..Len(observations) :
       TryBlock(TraceOf(observations[i]), convBody.method).threw

\* ------------------------------------------------------------------------
\* Further properties of the save/split call (checked under SpecSave)
\* ------------------------------------------------------------------------
\* A text of white space only: the empty text, blanks, blank lines.
BlankText(t) == \A i \in 1..Len(t) : t[i] \in WhiteSpace

\* The request carries a text, and the text is blank.
BlankRequest ==
  /\ savePc # "idle"
  /\ IsString(saveBody.data)
  /\ BlankText(Payload(saveBody.data))

\* C11 as stated: a blank ingest text, the empty string included, ends in
\* the rejection "No training examples found" and nothing is written.
C11_BlankTextNoExamplesFound ==
  BlankRequest =>
    /\ savePc = "done"
    /\ ~saveResponse.success
    /\ saveResponse.error = "No training examples found"
    /\ blobPuts = <<>>

\* C11 amended: a blank ingest text is rejected and nothing is written; the
\* empty string is rejected as "Training data is required", any other blank
\* text as "No training examples found".
C11_BlankTextRejected ==
  BlankRequest =>
    /\ savePc = "done"
    /\ ~saveResponse.success
    /\ saveResponse.status = 400
    /\ saveResponse.error =
         IF Payload(saveBody.data) = <<>> THEN "Training data is required"
         ELSE "No training examples found"
    /\ blobPuts = <<>>

\* A text of blanks and blank lines was rejected for holding no example.
C11_Witness ==
  /\ BlankRequest
  /\ Payload(saveBody.data) # <<>>
  /\ NL \in Range(Payload(saveBody.data))
  /\ saveResponse.error = "No training examples found"

\* ------------------------------------------------------------------------
\* Properties of convertTraceToTrainingExample and extractOutputContent
\* (checked under SpecCall)
\* ------------------------------------------------------------------------
Converted == callPc = "converted"

\* The messages of the example the call returned; none when it returned
\* null.
ResultMessages ==
  IF Tag(callResult.v) = "obj" /\ Tag(Get(callResult.v, MESSAGES)) = "arr"
  THEN Payload(Get(callResult.v, MESSAGES))
  ELSE <<>>

ReturnedExample == ~callResult.threw /\ Tag(callResult.v) = "obj"

\* A supervised call on a trace with a trace-level input and output and
\* exactly one observation, a GENERATION with an input that yields a
\* message list and an output.
OverrideCase ==
  /\ Converted
  /\ callMethod = supervised
  /\ Truthy(callTrace.input)
  /\ Truthy(callTrace.output)
  /\ Len(callTrace.observations) = 1
  /\ callTrace.observations[1].type = GENERATION
  /\ Truthy(callTrace.observations[1].input)
  /\ ~InputMessages(callTrace.observations[1].input).threw
  /\ Truthy(callTrace.observations[1].output)

\* The messages of the observation's input that the filters keep.
KeptObservationMessages(obs) ==
  SelectSeq(SelectSeq(InputMessages(obs.input).v, HasContent), ValidMessage)

\* C12: for a trace with a trace-level input and output and exactly one
\* GENERATION observation with its own input and output, the messages of
\* the supervised example are exactly the filtered messages of the
\* observation's input followed by one assistant message made from the
\* observation's output; nothing of the trace-level input or output remains.
C12_ObservationOverridesTrace ==
  OverrideCase =>
    /\ ReturnedExample
    /\ ResultMessages =
         KeptObservationMessages(callTrace.observations[1])
           \o << AssistantMessage(
                   extractOutputContent(callTrace.observations[1].output)) >>
    /\ \A k \in 1..Len(ResultMessages) :
         ResultMessages[k] \notin {TraceQuestion, TraceAnswer}

NonEmptyString(v) == Tag(v) = "str" /\ Payload(v) # <<>>

\* A supervised call on a trace with a non-empty string input, a non-empty
\* string output and no observations.
StringPairCase ==
  /\ Converted
  /\ callMethod = supervised
  /\ NonEmptyString(callTrace.input)
  /\ NonEmptyString(callTrace.output)
  /\ Len(callTrace.observations) = 0

\* The metadata of the trace carries neither tools nor parallel_tool_calls.
MetadataCarriesNone ==
  /\ ~HasKey(callTrace.metadata, TOOLS)
  /\ ~HasKey(callTrace.metadata, PARALLEL_TOOL_CALLS)

\* C13: for a trace with a non-empty string input s, a non-empty string
\* output t and no observations, the supervised example has exactly the
\* messages [{role:'user', content:s}, {role:'assistant', content:t}], and
\* no tools or parallel_tool_calls field when the metadata carries none.
C13_StringInputOutputPair ==
  StringPairCase =>
    /\ ReturnedExample
    /\ ResultMessages =
         << Obj(<< <<ROLE, Str(<<"user">>)>>,
                   <<CONTENT, callTrace.input>> >>),
            Obj(<< <<ROLE, Str(<<"assistant">>)>>,
                   <<CONTENT, callTrace.output>> >>) >>
    /\ MetadataCarriesNone =>
         /\ ~HasKey(callResult.v, TOOLS)
         /\ ~HasKey(callResult.v, PARALLEL_TOOL_CALLS)

\* {input: 'Hello', output: 'Hi there'} was converted.
C13_Witness ==
  /\ StringPairCase
  /\ callTrace.input = Hello
  /\ callTrace.output = HiThere
  /\ MetadataCarriesNone
  /\ Len(ResultMessages) = 2

Extracted == callPc = "extracted"

\* C14: extractOutputContent returns null exactly when the output is null
\* or absent, returns every string output verbatim, the empty string
\* included, never raises, and returns a string or null.
C14_ExtractNullOnlyForAbsent ==
  Extracted =>
    /\ ~extractResult.threw
    /\ Tag(extractResult.v) \in {"str", "null"}
    /\ (extractResult.v = Null) <=> (extractOutput \in {Null, Undefined})
    /\ Tag(extractOutput) = "str" => extractResult.v = extractOutput

\* The output is an object (an array is one) with a content field that is
\* not null.
HasUsableContent(output) ==
  /\ Tag(output) = "obj"
  /\ \E k \in 1..Len(Payload(output)) :
       Payload(output)[k][1] = CONTENT /\ Tag(Payload(output)[k][2]) # "null"

\* {"result":{"x":1}}
ResultObjectText ==
  <<"{", QUOTE, "result", QUOTE, ":", "{", QUOTE, "x", QUOTE, ":", "1", "}",
    "}">>

\* C15: for an object output, a content field that is not null is returned
\* when it is a string and serialized otherwise, whether or not the object
\* has a role; an object without usable content is serialized whole.
\* {role:'assistant', content:'Answer'} gives 'Answer' and {result:{x:1}}
\* gives the text {"result":{"x":1}}.
C15_ObjectOutputRules ==
  (Extracted /\ Tag(extractOutput) \in {"obj", "arr"}) =>
    /\ HasUsableContent(extractOutput) =>
         IF Tag(Get(extractOutput, CONTENT)) = "str"
         THEN extractResult.v = Get(extractOutput, CONTENT)
         ELSE extractResult.v = Str(JSONStringify(Get(extractOutput, CONTENT)))
    /\ ~HasUsableContent(extractOutput) =>
         extractResult.v = Str(JSONStringify(extractOutput))
    /\ extractOutput = Obj(<< <<ROLE, Assistant>>, <<CONTENT, Answer>> >>) =>
         extractResult.v = Answer
    /\ extractOutput = ResultObject =>
         extractResult.v = Str(ResultObjectText)

\* An object with a content field and no role was given: both rules apply
\* to it, and the content was returned.
C15_Witness ==
  /\ Extracted
  /\ extractOutput = Obj(<< <<CONTENT, Answer>> >>)
  /\ extractResult.v = Answer

\* The block is by itself a well-formed JSON document.
WellFormedDocument(block) == JSONParse(block).ok

\* C16: every candidate block that is by itself a well-formed JSON document
\* is accepted, whatever its value, and contributes exactly its compact
\* re-serialization: no such block is the one a rejection names, and when
\* every block is one, the compact lines are their re-serializations.
C16_DirectParseAcceptsAnyValue ==
  /\ (savePc = "done" /\ saveResponse.error = "Invalid JSON on example") =>
       ~WellFormedDocument(blocks[saveResponse.index])
  /\ (savePc # "idle" /\ Len(blocks) > 0
        /\ \A i \in 1..Len(blocks) : WellFormedDocument(blocks[i])) =>
       compactLines =
         [i \in 1..Len(blocks) |-> JSONStringify(JSONParse(blocks[i]).v)]

\* ------------------------------------------------------------------------
\* Further properties of the conversion call (checked under SpecConvert)
\* ------------------------------------------------------------------------
\* The message list the supervised conversion assembles from the record,
\* before any message is validated: none when the assembly throws.
AssembledMessages(obs) ==
  IF TraceInputMessages(TraceOf(obs)).threw THEN <<>>
  ELSE IF FromObservations(<< obs >>, 1,
            WithAssistant(TraceInputMessages(TraceOf(obs)).v,
                          obs.output)).threw
  THEN <<>>
  ELSE FromObservations(<< obs >>, 1,
         WithAssistant(TraceInputMessages(TraceOf(obs)).v, obs.output)).v

\* What is wrong with a message, in the words of the validator; "" for a
\* well-formed message.
Violation(msg) ==
  IF Tag(msg) \notin {"obj", "arr"} THEN "is not an object"
  ELSE IF Tag(Get(msg, ROLE)) # "str" \/ Payload(Get(msg, ROLE)) = <<>>
  THEN "missing or invalid role"
  ELSE IF Tag(Get(msg, CONTENT)) \in {"null", "undefined"}
  THEN "missing content"
  ELSE ""

\* The first message of the list that violates, counted from 1; 0 when
\* none does.
FirstViolating(messages) ==
  IF \A j \in 1..Len(messages) : Violation(messages[j]) = "" THEN 0
  ELSE CHOOSE j \in 1..Len(messages) :
         /\ Violation(messages[j]) # ""
         /\ \A k \in 1..(j - 1) : Violation(messages[k]) = ""

\* The record at batch position i is reported for its first violating
\* message, named from 0, and for nothing else, and is not accepted.
RejectedForFirstViolation(i) ==
  /\ \A k \in 1..Len(acceptedFrom) : acceptedFrom[k] # i
  /\ \E k \in 1..Len(invalidTraces) :
       /\ invalidTraces[k].index = i
       /\ invalidTraces[k].reason =
            <<"message", FirstViolating(AssembledMessages(observations[i])) - 1,
              Violation(AssembledMessages(observations[i])[
                FirstViolating(AssembledMessages(observations[i]))])>>
  /\ Cardinality({k \in 1..Len(invalidTraces) : invalidTraces[k].index = i})
       = 1

\* C17: in supervised conversion a trace whose assembled message list
\* holds a non-object, a message without a string role or a message with
\* null or absent content is rejected into invalidTraces with the reason
\* "message j ..." of its first violation, j counted from 0, and is not
\* accepted.
C17_PositionalRejection ==
  (convBody.method = supervised /\ convPc \in {"putting", "done"}) =>
    \A i \in 1..Len(observations) :
      FirstViolating(AssembledMessages(observations[i])) # 0 =>
        RejectedForFirstViolation(i)

\* C18: under method preference every record converts to null, so a call
\* that succeeds over N observations answers count = 0, no examples and
\* invalidCount = N, every record reported once.
C18_PreferenceIsStub ==
  convBody.method = preference =>
    /\ trainingExamples = <<>>
    /\ \A i \in 1..Len(observations) :
         convertTraceToTrainingExample(TraceOf(observations[i]),
                                       preference).v = Null
    /\ convPc \in {"putting", "done"} =>
         /\ Len(invalidTraces) = Len(observations)
         /\ \A i \in 1..Len(observations) : invalidTraces[i].index = i
    /\ ConvertSucceeded =>
         /\ convResponse.count = 0
         /\ convResponse.examples = <<>>
         /\ convResponse.jsonl = <<>>
         /\ convResponse.invalidCount = Len(observations)

\* A preference call over a full batch of convertible observations
\* succeeded.
C18_Witness ==
  /\ ConvertSucceeded
  /\ convBody.method = preference
  /\ Len(observations) >= 2
  /\ convResponse.invalidCount = Len(observations)
  /\ \A i \in 1..Len(observations) :
       Tag(convertTraceToTrainingExample(TraceOf(observations[i]),
                                         supervised).v) = "obj"

\* ------------------------------------------------------------------------
\* Further properties of the save/split call (checked under SpecSave)
\* ------------------------------------------------------------------------
\* The request lacks data: missing, empty or not a string.
LacksData == Tag(saveBody.data) # "str" \/ Payload(saveBody.data) = <<>>

\* The request lacks method: missing or none of the three training methods.
LacksMethod ==
  saveBody.method \notin {supervised, preference, reinforcement}

\* C19: a save/split request that lacks data (missing, empty or not a
\* string) or method (missing or not one of the three training methods) is
\* rejected with a validation error before any block is parsed and before
\* any artifact is written.
C19_RequiredFieldsValidated ==
  (savePc # "idle" /\ (LacksData \/ LacksMethod)) =>
    /\ savePc = "done"
    /\ ~saveResponse.success
    /\ saveResponse.status = 400
    /\ saveResponse.index = 0
    /\ blocks = <<>>
    /\ compactLines = <<>>
    /\ blobPuts = <<>>

\* The kinds of the artifacts put so far, in order.
PutKinds == [i \in 1..Len(blobPuts) |-> blobPuts[i].filename[2]]

\* No artifact is put twice.
EachArtifactPutOnce ==
  /\ Len(blobPuts) <= 3
  /\ \A i, j \in 1..Len(blobPuts) : PutKinds[i] = PutKinds[j] => i = j

\* A success response follows three accepted puts.
SuccessAfterAllPuts ==
  saveResponse.success =>
    /\ savePc = "done"
    /\ PutKinds = <<"training", "validation", "combined">>

\* The response to a failed put is an error with no artifact URL.
FailedPutCarriesNoUrl ==
  saveResponse.error = "put failed" =>
    /\ savePc = "done"
    /\ ~saveResponse.success
    /\ saveResponse.status = 500
    /\ saveResponse.blobUrl = NoUrl
    /\ saveResponse.trainingBlobUrl = NoUrl
    /\ saveResponse.validationBlobUrl = NoUrl
    /\ Len(blobPuts) < 3

\* C20: a failed put is terminal and never retried: each of the three
\* artifacts is put at most once, the call answers success only after all
\* three puts succeeded, a failed put is answered with an error that
\* carries no artifact URL, and once the call has answered nothing more
\* is put and the answer stands.
C20_FailedPutIsTerminal ==
  /\ [](EachArtifactPutOnce /\ SuccessAfterAllPuts /\ FailedPutCarriesNoUrl)
  /\ [][savePc = "done" =>
          (blobPuts' = blobPuts /\ saveResponse' = saveResponse
             /\ savePc' = "done")]_vars

\* The put of the combined artifact failed after the two others succeeded.
C20_Witness ==
  /\ savePc = "done"
  /\ saveResponse.error = "put failed"
  /\ PutKinds = <<"training", "validation">>

\* ------------------------------------------------------------------------
\* Properties of concurrent save/split calls (checked under
\* SpecConcurrentSaves)
\* ------------------------------------------------------------------------
\* The name handed to the store by the i-th put.
NameAt(i) == gateway[i].put.filename

\* A name without its kind: what is left is the method tag and the timestamp.
TagAndStamp(name) == [name EXCEPT ![2] = ""]

\* The puts of one call carry pairwise distinct names that agree in method
\* tag and timestamp.
NamesWithinCall ==
  \A i, j \in 1..Len(gateway) :
    (gateway[i].call = gateway[j].call /\ i # j)
      => /\ NameAt(i) # NameAt(j)
         /\ TagAndStamp(NameAt(i)) = TagAndStamp(NameAt(j))

\* The puts of two different calls carry different names.
NamesAcrossCalls ==
  \A i, j \in 1..Len(gateway) :
    gateway[i].call # gateway[j].call => NameAt(i) # NameAt(j)

\* C21: within one save call the three names handed to the store are
\* pairwise distinct and share one timestamp and the method tag, and the
\* names of any two save calls are distinct, also when both calls name the
\* same method and read the clock in the same millisecond.
C21_ArtifactNamesDistinct == NamesWithinCall /\ NamesAcrossCalls

\* ------------------------------------------------------------------------
\* Further properties of convertTraceToTrainingExample (checked under
\* SpecCall)
\* ------------------------------------------------------------------------
\* The four rules as stated: a list as it is, the `messages` field of an
\* object, a string as one user message, nothing otherwise.
FourRules(input) ==
  IF IsArray(input) THEN Payload(input)
  ELSE IF HasKey(input, MESSAGES) /\ IsArray(Get(input, MESSAGES))
  THEN Payload(Get(input, MESSAGES))
  ELSE IF IsString(input) THEN << UserMessage(input) >>
  ELSE <<>>

\* An input whose `messages` field, if it has one, is a list.
ListShaped(input) ==
  HasKey(input, MESSAGES) => IsArray(Get(input, MESSAGES))

\* The messages of the example a reinforcement call returned; none when it
\* returned null.
ReinforcementMessages ==
  IF callResult.v = Null THEN <<>>
  ELSE Payload(Get(callResult.v, MESSAGES))

\* The body of the try block raised.
ConversionRaised == TryBlock(callTrace, callMethod).threw

\* C22: the messages taken from an input follow the four rules (a list as
\* it is, an object's `messages` field, a string -- also the empty one -- as
\* one user message, [] otherwise), and no input shape, such as an object
\* whose `messages` field is not a list, makes the conversion raise.  The
\* reinforcement branch returns the messages of trace.input unfiltered, so
\* its result shows them.
C22_ToMessagesFourRules ==
  callPc = "converted"
    => /\ ~ConversionRaised
       /\ (callMethod = reinforcement /\ ListShaped(callTrace.input))
            => ReinforcementMessages = FourRules(callTrace.input)

\* The same, for inputs that are neither the empty string nor an object with
\* a `messages` field that is no list.
FourRulesOnTruthyListShaped ==
  (callPc = "converted" /\ callMethod = reinforcement
     /\ ListShaped(callTrace.input) /\ callTrace.input # Str(<<>>))
    => ReinforcementMessages = FourRules(callTrace.input)

\* The last message of the returned example is the assistant message made
\* from the output.
EndsWithAssistantFrom(output) ==
  /\ ReturnedExample
  /\ ResultMessages # <<>>
  /\ ResultMessages[Len(ResultMessages)]
       = AssistantMessage(extractOutputContent(output))

\* The first observation is the one the scan stops at.
FirstObservationMatches ==
  /\ Len(callTrace.observations) >= 1
  /\ \/ callTrace.observations[1].type = GENERATION
     \/ ~Truthy(callTrace.observations[1].type)

\* A supervised call whose body did not raise.
SupervisedCall ==
  Converted /\ callMethod = supervised /\ ~ConversionRaised

\* C23: in supervised conversion an assistant message is appended whenever
\* extractOutputContent gives a non-null result for the output -- the trace's
\* output when there is no observation, the first matching observation's
\* output otherwise -- also when the extracted content is the empty string.
C23_AssistantWheneverExtracted ==
  /\ (SupervisedCall /\ callTrace.observations = <<>>
        /\ extractOutputContent(callTrace.output) # Null)
       => EndsWithAssistantFrom(callTrace.output)
  /\ (SupervisedCall /\ FirstObservationMatches
        /\ extractOutputContent(callTrace.observations[1].output) # Null)
       => EndsWithAssistantFrom(callTrace.observations[1].output)

\* The same for outputs whose extracted content is not the empty string.
AssistantWheneverExtractedNonEmpty ==
  /\ (SupervisedCall /\ callTrace.observations = <<>>
        /\ Truthy(extractOutputContent(callTrace.output)))
       => EndsWithAssistantFrom(callTrace.output)
  /\ (SupervisedCall /\ FirstObservationMatches
        /\ Truthy(extractOutputContent(callTrace.observations[1].output)))
       => EndsWithAssistantFrom(callTrace.observations[1].output)

RECURSIVE FirstMatch(_, _)
\* The position of the first observation from k on whose type is
\* GENERATION or absent; 0 when there is none.
FirstMatch(list, k) ==
  IF k > Len(list) THEN 0
  ELSE IF list[k].type = GENERATION \/ ~Truthy(list[k].type) THEN k
  ELSE FirstMatch(list, k + 1)

\* The one observation the scan may consult, as a list.
Consulted(list) ==
  IF FirstMatch(list, 1) = 0 THEN <<>> ELSE << list[FirstMatch(list, 1)] >>

\* The messages a supervised call returns for a trace.
SupervisedMessages(trace) ==
  With(convertTraceToTrainingExample(trace, supervised).v,
       LAMBDA ex : IF Tag(ex) = "obj" THEN Payload(Get(ex, MESSAGES))
                   ELSE <<>>)

\* The texts only a skipped span or an observation behind the first match
\* carries.
UnconsultedTexts ==
  {SpanObservation.input, SpanObservation.output, LaterGeneration.input,
   LaterGeneration.output}

\* C24: supervised conversion consults at most one observation.  The
\* messages are those of the same trace holding only the first observation
\* whose type is GENERATION or absent (none, when no observation matches):
\* observations of other types before it and every observation after it
\* contribute nothing; and when that observation has neither input nor
\* output, the messages are those of the trace level alone.
C24_AtMostOneObservation ==
  (Converted /\ callMethod = supervised)
    => /\ \A j \in 1..Len(ResultMessages) :
            Get(ResultMessages[j], CONTENT) \notin UnconsultedTexts
       /\ ResultMessages =
            SupervisedMessages(
              [callTrace EXCEPT !.observations = Consulted(@)])
       /\ (/\ FirstMatch(callTrace.observations, 1) # 0
           /\ ~Truthy(Consulted(callTrace.observations)[1].input)
           /\ ~Truthy(Consulted(callTrace.observations)[1].output))
            => ResultMessages =
                 SupervisedMessages([callTrace EXCEPT !.observations = <<>>])

\* A call returned an example for a trace whose first matching observation
\* has neither input nor output and is followed by a GENERATION observation
\* with both: the messages are the trace-level ones.
C24_Witness ==
  /\ Converted
  /\ callMethod = supervised
  /\ ReturnedExample
  /\ Len(callTrace.observations) >= 2
  /\ FirstMatch(callTrace.observations, 1) = 1
  /\ ~Truthy(callTrace.observations[1].input)
  /\ ~Truthy(callTrace.observations[1].output)
  /\ callTrace.observations[2] = LaterGeneration
  /\ ResultMessages = << UserMessage(Hello), AssistantMessage(HiThere) >>

\* ------------------------------------------------------------------------
\* Further properties of the brace-matching scan (checked under SpecSave)
\* ------------------------------------------------------------------------
RECURSIVE DepthFromStart(_, _, _, _, _, _)
\* The scan as stated: the depth is counted from the first opening bracket
\* outside a string, so a closing bracket before that start counts for
\* nothing.
DepthFromStart(block, j, start, depth, inString, escapeNext) ==
  IF j > Len(block) THEN [kind |-> "none", v |-> Undefined]
  ELSE IF escapeNext
  THEN DepthFromStart(block, j + 1, start, depth, inString, FALSE)
  ELSE IF block[j] = BSLASH
  THEN DepthFromStart(block, j + 1, start, depth, inString, TRUE)
  ELSE IF block[j] = QUOTE
  THEN DepthFromStart(block, j + 1, start, depth, ~inString, FALSE)
  ELSE IF inString
  THEN DepthFromStart(block, j + 1, start, depth, inString, FALSE)
  ELSE IF block[j] \in {"{", "["}
  THEN DepthFromStart(block, j + 1, IF start = -1 THEN j ELSE start,
                      depth + 1, inString, FALSE)
  ELSE IF block[j] \in {"}", "]"} /\ start # -1
  THEN IF depth - 1 = 0
       THEN ScanRegion(JSONParse(SubSeq(block, start, j)))
       ELSE DepthFromStart(block, j + 1, start, depth - 1, inString, FALSE)
  ELSE DepthFromStart(block, j + 1, start, depth, inString, FALSE)

\* The blocks the scan runs on: those JSON.parse rejects.
ScannedBlocks == {i \in DOMAIN blocks : ~JSONParse(blocks[i]).ok}

RECURSIVE ClosesBeforeStart(_, _, _, _)
\* A closing bracket outside a string stands before the first opening one.
ClosesBeforeStart(block, j, inString, escapeNext) ==
  IF j > Len(block) THEN FALSE
  ELSE IF escapeNext THEN ClosesBeforeStart(block, j + 1, inString, FALSE)
  ELSE IF block[j] = BSLASH
  THEN ClosesBeforeStart(block, j + 1, inString, TRUE)
  ELSE IF block[j] = QUOTE
  THEN ClosesBeforeStart(block, j + 1, ~inString, FALSE)
  ELSE IF inString THEN ClosesBeforeStart(block, j + 1, inString, FALSE)
  ELSE IF block[j] \in {"{", "["} THEN FALSE
  ELSE IF block[j] \in {"}", "]"} THEN TRUE
  ELSE ClosesBeforeStart(block, j + 1, inString, FALSE)

\* C25: the scan starts its depth counter at the first `{` or `[` outside a
\* string and takes the region from that start to the closing bracket that
\* brings the depth, counted from the start, back to zero; what precedes the
\* start, a stray `}` or `]` included, does not keep the value that begins
\* at the start from being recovered.
C25_DepthCountedFromStart ==
  \A i \in ScannedBlocks :
    BraceScan(blocks[i], 1, -1, 0, FALSE, FALSE)
      = DepthFromStart(blocks[i], 1, -1, 0, FALSE, FALSE)

\* The same for the blocks with no closing bracket before the start.
DepthCountedFromStartWithoutStray ==
  \A i \in ScannedBlocks :
    ~ClosesBeforeStart(blocks[i], 1, FALSE, FALSE)
      => BraceScan(blocks[i], 1, -1, 0, FALSE, FALSE)
           = DepthFromStart(blocks[i], 1, -1, 0, FALSE, FALSE)

\* ------------------------------------------------------------------------
\* Further properties of the conversion call (checked under SpecConvert)
\* ------------------------------------------------------------------------
\* The conversion call made its two serializations of at least one example.
Serialized ==
  /\ trainingExamples # <<>>
  /\ convPc = "putting" \/ ConvertSucceeded

\* C26: for every non-empty list of accepted examples, a list of exactly
\* one example included, ingesting the pretty form (indented blocks joined by
\* the separator) succeeds and gives the same values in the same order as
\* ingesting the compact form (one example per line).
C26_PrettyAndCompactIngestAlike ==
  Serialized
    => /\ Repairer(jsonl).ok
       /\ Repairer(compactJsonl).ok
       /\ Repairer(jsonl).lines = Repairer(compactJsonl).lines

\* The same for lists of two or more examples.
PrettyAndCompactIngestAlikeFromTwo ==
  (Serialized /\ Len(trainingExamples) >= 2)
    => /\ Repairer(jsonl).ok
       /\ Repairer(jsonl).lines = Repairer(compactJsonl).lines

\* The compact form of a non-empty list is always ingested, and gives the
\* examples back.
CompactIngestGivesExamples ==
  Serialized
    => /\ Repairer(compactJsonl).ok
       /\ Repairer(compactJsonl).lines
            = [i \in DOMAIN trainingExamples |->
                 JSONStringify(trainingExamples[i])]

\* ------------------------------------------------------------------------
\* Properties of the finetune page's paging (checked under SpecFetchTraces)
\* ------------------------------------------------------------------------
\* The record positions page `page` of size `limit` addresses upstream.
PageRecords(query) ==
  ((query.page - 1) * query.limit)..(query.page * query.limit - 1)

\* The record positions a body asks for: offset .. offset + limit - 1.
AskedRecords(body) ==
  OffsetOf(body)..(OffsetOf(body) + LimitOf(body) - 1)

\* How many of the queries address a position.
TimesRequested(pos) ==
  Cardinality({k \in DOMAIN upstreamQueries :
                 pos \in PageRecords(upstreamQueries[k])})

\* C27: for every total T >= 1 fetched in batches of at most 100 (batch i
\* sends offset = 100*i and limit = min(100, T - 100*i)), the page the
\* conversion call computes as floor(offset/limit) + 1 with page size limit
\* addresses exactly the records offset .. offset+limit-1, so that over all
\* batches every position in [0, T) is requested once and none twice.
C27_PagingCoversRangeOnce ==
  /\ \A k \in DOMAIN upstreamQueries :
       PageRecords(upstreamQueries[k]) = AskedRecords(batchBodies[k])
  /\ pagePc = "fetched"
       => \A pos \in 0..(traceLimit - 1) : TimesRequested(pos) = 1

\* The bodies are as the claim describes them: batch i sends offset 100*i
\* and limit min(100, T - 100*i), and together they ask for [0, T) once.
BodiesAskRangeOnce ==
  /\ \A k \in DOMAIN batchBodies :
       /\ OffsetOf(batchBodies[k]) = MaxLimitPerRequest * (k - 1)
       /\ LimitOf(batchBodies[k])
            = Min(MaxLimitPerRequest,
                  traceLimit - MaxLimitPerRequest * (k - 1))
       /\ LimitOf(batchBodies[k]) >= 1
  /\ pagePc = "fetched"
       => \A pos \in 0..(traceLimit - 1) :
            Cardinality({k \in DOMAIN batchBodies :
                           pos \in AskedRecords(batchBodies[k])}) = 1

\* The paging is exact whenever the limit of every batch divides its offset.
PagingExactWhenLimitDividesOffset ==
  \A k \in DOMAIN upstreamQueries :
    OffsetOf(batchBodies[k]) % LimitOf(batchBodies[k]) = 0
      => PageRecords(upstreamQueries[k]) = AskedRecords(batchBodies[k])

\* The observation the k-th accepted example was made from.
SourceOf(k) == observations[acceptedFrom[k]]

\* The messages of the k-th accepted example.
MessagesOf(k) == Payload(Get(trainingExamples[k], MESSAGES))

\* How many messages of the k-th accepted example are the assistant message
\* made from its observation's output.
ResponsesIn(k) ==
  Cardinality({j \in DOMAIN MessagesOf(k) :
                 MessagesOf(k)[j]
                   = AssistantMessage(
                       extractOutputContent(SourceOf(k).output))})

\* The observation's input holds no assistant message equal to the one made
\* from its output (in the batches of the model no input does).
InputLacksResponse(k) ==
  \A j \in DOMAIN FourRules(SourceOf(k).input) :
    FourRules(SourceOf(k).input)[j]
      # AssistantMessage(extractOutputContent(SourceOf(k).output))

\* C28: an accepted supervised example holds at most one assistant message
\* derived from the output of the single observation its trace was built
\* from, whether the observation's input is present, absent or of an
\* unrecognised shape.
C28_NoDuplicatedResponse ==
  (convBody.method = supervised /\ convPc \in {"putting", "done"})
    => \A k \in DOMAIN trainingExamples :
         InputLacksResponse(k) => ResponsesIn(k) <= 1

\* The same for observations with a truthy input.
NoDuplicatedResponseWithInput ==
  (convBody.method = supervised /\ convPc \in {"putting", "done"})
    => \A k \in DOMAIN trainingExamples :
         (InputLacksResponse(k) /\ Truthy(SourceOf(k).input))
           => ResponsesIn(k) <= 1

\* The batch was converted without a failure of the request.
BatchConverted == convPc = "putting" \/ ConvertSucceeded

\* The batch positions whose record has no output, at the trace or at its
\* first observation.
WithoutOutput ==
  {i \in DOMAIN observations : ~HasOutput(TraceOf(observations[i]))}

\* The record at batch position i is in invalidTraces for its missing
\* output and no example was made of it.
RejectedForNoOutput(i) ==
  /\ \A k \in DOMAIN acceptedFrom : acceptedFrom[k] # i
  /\ \E k \in DOMAIN invalidTraces :
       /\ invalidTraces[k].index = i
       /\ invalidTraces[k].reason =
            (IF HasInput(TraceOf(observations[i]))
             THEN <<"no output found">>
             ELSE <<"no input or output found">>)

\* The k-th accepted example ends with an assistant message built from the
\* output of its record.
EndsWithResponse(k) ==
  /\ MessagesOf(k) # <<>>
  /\ MessagesOf(k)[Len(MessagesOf(k))]
       = AssistantMessage(extractOutputContent(SourceOf(k).output))

\* C29: a supervised trace with no output is never accepted: when neither
\* the trace nor its first observation has an output the record is put in
\* invalidTraces (reason 'no output found', or 'no input or output found'
\* when the input is missing too) and no example is emitted for it, so every
\* accepted supervised example ends with an assistant message built from an
\* output.
C29_NoOutputNeverAccepted ==
  (BatchConverted /\ convBody.method = supervised)
    => /\ \A i \in WithoutOutput : RejectedForNoOutput(i)
       /\ \A k \in DOMAIN trainingExamples : EndsWithResponse(k)

\* A record with neither input nor output is rejected with its reason.
NothingFoundIsRejected ==
  (BatchConverted /\ convBody.method = supervised)
    => \A i \in WithoutOutput :
         ~HasInput(TraceOf(observations[i])) => RejectedForNoOutput(i)

\* ------------------------------------------------------------------------
\* Further properties of concurrent save/split calls (checked under
\* SpecConcurrentSaves)
\* ------------------------------------------------------------------------
\* The puts call c handed to the store, in the order it handed them.
PutsOf(c) == SelectSeq(gateway, LAMBDA h : h.call = c)

\* The kinds of those puts.
KindsOf(c) == [i \in DOMAIN PutsOf(c) |-> PutsOf(c)[i].put.filename[2]]

WriteOrder == <<"training", "validation", "combined">>

\* The writes of call c so far are the first ones of the order training,
\* validation, combined, and every write but the last one succeeded.
WritesInOrder(c) ==
  /\ Len(PutsOf(c)) <= Len(WriteOrder)
  /\ KindsOf(c) = SubSeq(WriteOrder, 1, Len(PutsOf(c)))
  /\ \A i \in 1..(Len(PutsOf(c)) - 1) : PutsOf(c)[i].accepted

\* A write of call c failed.
WriteFailed(c) ==
  PutsOf(c) # <<>> /\ ~PutsOf(c)[Len(PutsOf(c))].accepted

\* After a failed write the call is over and its response is an error that
\* carries no url.
FailureAnswered(c) ==
  WriteFailed(c)
    => /\ reqPc[c] = "done"
       /\ ~reqResponse[c].success
       /\ reqResponse[c].status = 500
       /\ reqResponse[c].blobUrl = NoUrl
       /\ reqResponse[c].trainingBlobUrl = NoUrl
       /\ reqResponse[c].validationBlobUrl = NoUrl

\* A success response follows three accepted writes.
SuccessAfterThreeWrites(c) ==
  reqResponse[c].success
    => /\ Len(PutsOf(c)) = Len(WriteOrder)
       /\ \A i \in DOMAIN PutsOf(c) : PutsOf(c)[i].accepted

\* Nothing handed to the store is taken back or changed: the store's record
\* only grows at its end.
NothingRolledBack ==
  /\ Len(gateway') >= Len(gateway)
  /\ SubSeq(gateway', 1, Len(gateway)) = gateway

\* C30: the three writes of one save/split call are issued in the order
\* training, validation, combined, each only after the one before it
\* succeeded; when a write fails the later ones are never issued, what was
\* written before stays persisted (nothing is rolled back or deleted), and
\* the caller gets an error without the urls of the artifacts already
\* written.
C30_WritesOrderedNoRollback ==
  /\ [](\A c \in SaveCalls :
          WritesInOrder(c) /\ FailureAnswered(c)
            /\ SuccessAfterThreeWrites(c))
  /\ [][NothingRolledBack]_vars

\* The second write of a call failed: the training artifact is persisted,
\* no combined write was issued, and the call answered 500.
C30_Witness ==
  \E c \in SaveCalls :
    /\ Len(PutsOf(c)) = 2
    /\ PutsOf(c)[1].accepted
    /\ KindsOf(c) = <<"training", "validation">>
    /\ WriteFailed(c)
    /\ reqPc[c] = "done"
    /\ reqResponse[c].status = 500

====
